---- MODULE Spec2Model ----
(***************************************************************************)
(* Model of the superpowers-teams scheduler:                               *)
(*   - scripts/teams-helpers/task-grouping.js  (dependency graph helpers)  *)
(*   - skills/executing-as-team/lib/dispatcher.js (TeamDispatcher)         *)
(*   - skills/executing-as-team/lib/team-manager.js (TeamManager.execute)  *)
(*   - skills/goal-alignment-monitor/lib/checkers.js (AlignmentChecker)   *)
(*                                                                         *)
(* A task list is a sequence of records [id, dependencies]; the task at    *)
(* position i has id i, so a dependency on a later position is a list that *)
(* is not in topological order, and the id Len(tasks)+1 matches no task.   *)
(***************************************************************************)
EXTENDS Naturals, Sequences, FiniteSets

VARIABLES
    tasks,            \* plan.tasks
    teammateCount,    \* TeamManager.teammateCount
    oversight,        \* TRUE iff an oversight agent was passed to the constructor
    activeTeammates,  \* TeamDispatcher.activeTeammates: id -> [currentTask, status]
    completedTasks,   \* TeamManager.completedTasks: sequence of [id, alignment]
    blockedTasks,     \* TeamManager.blockedTasks: sequence of ids
    runningTasks,     \* TeamManager.runningTasks: sequence of ids
    taskResults,      \* TeamManager.taskResults: id -> result record (NoResult if unset)
    taskPc,           \* position of each task's dispatchAndMonitor call
    pc,               \* position of execute()
    depIdx,           \* index of the dependent task execute() is handling
    waitDep,          \* dependency id waitForDependencyStart is polling for (0: none)
    validation,       \* result of validateDependencies(tasks) (NoResult if not called)
    oversightCalls,   \* id -> how oversight.checkAlignment answered for the task
                      \* ("none" while it has not been called)
    summary,          \* the summary of the object execute() returns (NoResult before)
    decisionRequests, \* the alerts askUserDecision was called with, in call order
    alertHistory,     \* AlertSystem.alertHistory: sequence of references to alerts
    alerts,           \* the alert objects of the caller: reference -> object
    notificationQueue,   \* AlertSystem.notificationQueue: sequence of references
    criticalAlertsSent,  \* AlertSystem.criticalAlertsSent
    immediateLog,     \* what notifyImmediately has put out, in call order
    clock,            \* Date.now()
    returnedHistory,  \* the array the last getHistory call returned to the caller
    lastBatch,        \* what the last sendBatchNotifications call returned
    dispatcherCompleted,  \* TeamDispatcher.completedTasks: task id -> result
    grouping,         \* what the last groupTasksForTeams(tasks) call returned
    suggestion,       \* what the last suggestTeammateCount(tasks) call returned
    executionOrder,   \* what the last calculateExecutionOrder call on tasks returned
    taskResultsArg,   \* options.taskResults of generateMilestoneReport
    goalsArg,         \* options.goals of generateMilestoneReport, as its entries
    reports,          \* the reports generateMilestoneReport returned, in call order
    goalTags,         \* the goalTags argument of AlignmentChecker.checkAll
    tests,            \* the tests argument of AlignmentChecker.checkAll
    styleAnalysis,    \* what analyzeStyle of the style checker in use returns
    checkResult       \* the call of checkAll: where it is suspended, then what it returned

vars == <<tasks, teammateCount, oversight, activeTeammates, completedTasks,
          blockedTasks, runningTasks, taskResults, taskPc, pc, depIdx, waitDep,
          validation, oversightCalls, summary, decisionRequests, alertHistory,
          alerts, notificationQueue, criticalAlertsSent, immediateLog, clock,
          returnedHistory, lastBatch, dispatcherCompleted, grouping, suggestion,
          executionOrder,
          taskResultsArg, goalsArg, reports,
          goalTags, tests, styleAnalysis, checkResult>>

(***************************************************************************)
(* Bounds of the model and constants of the program.                       *)
(***************************************************************************)
MaxTasks == 3
MaxEdges == 2
MaxSize == 5
MaxWorkers == 2
MaxResponseTime == 3

\* task-grouping.js: Math.min(independent.length, 5)
CAP == 5

NoTask == 0
NoResult == [set |-> FALSE]
\* checkAll was not called: nothing is awaited and nothing was returned.
NoCall == [set |-> FALSE, awaiting |-> 0, results |-> <<>>, value |-> NoResult]

(***************************************************************************)
(* Generic helpers.                                                        *)
(***************************************************************************)
RECURSIVE SetToSeq(_)
SetToSeq(S) ==
    IF S = {} THEN <<>>
    ELSE LET m == CHOOSE x \in S : \A y \in S : x <= y
         IN  <<m>> \o SetToSeq(S \ {m})

SeqToSet(s) == {s[i] : i \in 1..Len(s)}

\* The key order of AlignmentChecker.checkers.
CheckerKeys == <<"architecture", "style", "testing", "performance", "security">>
\* goalTags = {}.
NoGoals == [key \in SeqToSet(CheckerKeys) |-> <<>>]
\* A tests object that reports no test and no finding: every count is the
\* number 0 and every flag is false.
ZeroTests ==
    [coverage |-> 0, unitTests |-> 0, integrationTests |-> 0, e2eTests |-> 0,
     failed |-> 0,
     performance |-> [avgResponseTime |-> 0, concurrentCapacity |-> 0],
     security |-> [hardcodedSecrets |-> FALSE, sqlInjectionRisk |-> FALSE,
                   xssRisk |-> FALSE, usesJWT |-> FALSE, usesBcrypt |-> FALSE]]

\* What the analyzeStyle that ships with StyleChecker returns for every code.
PlaceholderStyle ==
    [hasClasses |-> FALSE, hasSideEffects |-> FALSE, functionalPatternUsed |-> FALSE,
     lintingErrors |-> 0, formattingIssues |-> 0, namingConventions |-> "consistent"]

Includes(s, x) == \E i \in 1..Len(s) : s[i] = x

Min2(a, b) == IF a <= b THEN a ELSE b

(***************************************************************************)
(* Task lists.                                                             *)
(***************************************************************************)
Edges(n) == (1..n) \X (1..(n + 1))

RECURSIVE EdgeSets(_, _)
EdgeSets(n, k) ==
    IF k = 0 THEN {{}}
    ELSE LET prev == EdgeSets(n, k - 1)
         IN  prev \cup {S \cup {e} : S \in prev, e \in Edges(n)}

MkTasks(n, E) ==
    [i \in 1..n |->
        [id |-> i, dependencies |-> SetToSeq({d \in 1..(n + 1) : <<i, d>> \in E})]]

\* The task lists of at most MaxTasks tasks and MaxEdges dependencies, tasks
\* and dependencies together at most MaxSize.
TaskLists ==
    UNION {{MkTasks(n, E) : E \in EdgeSets(n, Min2(MaxEdges, MaxSize - n))} :
              n \in 0..MaxTasks}

\* The diamond 1(), 2(1), 3(1), 4(2,3).
Diamond ==
    << [id |-> 1, dependencies |-> <<>>],
       [id |-> 2, dependencies |-> <<1>>],
       [id |-> 3, dependencies |-> <<1>>],
       [id |-> 4, dependencies |-> <<2, 3>>] >>

\* CAP + 1 independent tasks.
WideList == [i \in 1..(CAP + 1) |-> [id |-> i, dependencies |-> <<>>]]

\* n independent tasks followed by d tasks that depend on task 1.
MaxIndependent == 10

WideTasks(n, d) ==
    [i \in 1..(n + d) |->
        [id |-> i, dependencies |-> IF i <= n THEN <<>> ELSE <<1>>]]

WideLists ==
    {WideTasks(n, d) : n \in 0..MaxIndependent, d \in 0..1} \ {WideTasks(0, 1)}

TaskIds(ts) == {ts[i].id : i \in 1..Len(ts)}

Deps(ts, id) == SeqToSet(ts[id].dependencies)

(***************************************************************************)
(* Graph notions the properties are stated with (independent of the        *)
(* program's own algorithms).                                              *)
(***************************************************************************)
\* <<a, b>>: task a names the existing task b as a dependency.
DependsOn(ts) == {e \in TaskIds(ts) \X TaskIds(ts) : e[2] \in Deps(ts, e[1])}

RECURSIVE TransitiveClosure(_)
TransitiveClosure(R) ==
    LET R2 == R \cup {<<p[1][1], p[2][2]>> : p \in {q \in R \X R : q[1][2] = q[2][1]}}
    IN  IF R2 = R THEN R ELSE TransitiveClosure(R2)

AllDepsExist(ts) == \A id \in TaskIds(ts) : Deps(ts, id) \subseteq TaskIds(ts)
HasUnknownDependency(ts) == ~AllDepsExist(ts)
HasCycle(ts) == \E id \in TaskIds(ts) : <<id, id>> \in TransitiveClosure(DependsOn(ts))
WellFormed(ts) == AllDepsExist(ts) /\ ~HasCycle(ts)
\* Every task comes after all of its dependencies in the input list.
InputTopological(ts) == \A id \in TaskIds(ts) : \A d \in Deps(ts, id) : d < id
\* The tasks that depend on id directly or through other tasks.
TransitiveDependents(ts, id) ==
    {t \in TaskIds(ts) : <<t, id>> \in TransitiveClosure(DependsOn(ts))}
NoDuplicates(s) == \A i, j \in 1..Len(s) : i # j => s[i] # s[j]

(***************************************************************************)
(* task-grouping.js                                                        *)
(***************************************************************************)
\* Variant: the edge is read the wrong way round (the dependencies of depId).
DependenciesOf(ts, depId) == ts[depId].dependencies

\* dependents of depId: one entry per task that names depId, in input order.
DependentsOf(ts, depId) ==
    LET hit(t) == Includes(t.dependencies, depId)
        sel == SelectSeq(ts, hit)
    IN  [i \in 1..Len(sel) |-> sel[i].id]

buildDependencyGraph(ts) ==
    [id \in TaskIds(ts) |->
        [dependents |-> DependentsOf(ts, id),
         dependencies |-> ts[id].dependencies]]

\* Variant: the node is looked up under a key the graph does not have.
getDependentTasksMissing(taskId, dependencyGraph) == <<>>

getDependentTasks(taskId, dependencyGraph) ==
    IF taskId \in DOMAIN dependencyGraph
    THEN dependencyGraph[taskId].dependents
    ELSE <<>>

IsIndependent(t) == Len(t.dependencies) = 0
\* Variant: the filter tests the array itself, which is always truthy.
IsDependentTruthy(t) == Len(t.dependencies) >= 0
IsDependent(t) == Len(t.dependencies) > 0

\* Variant: the parallelism is the number of independent tasks.
groupTasksForTeamsUncapped(ts) ==
    LET independent == SelectSeq(ts, IsIndependent)
    IN  [independent |-> independent,
         dependent |-> SelectSeq(ts, IsDependent),
         dependencyGraph |-> buildDependencyGraph(ts),
         maxParallel |-> Len(independent)]

groupTasksForTeams(ts) ==
    LET independent == SelectSeq(ts, IsIndependent)
    IN  [independent |-> independent,
         dependent |-> SelectSeq(ts, IsDependent),
         dependencyGraph |-> buildDependencyGraph(ts),
         maxParallel |-> Min2(Len(independent), CAP)]

\* Variant: the suggestion is always the parallelism of the grouping.
suggestTeammateCountParallel(ts) ==
    [count |-> groupTasksForTeams(ts).maxParallel, reason |-> "Adaptive"]

suggestTeammateCount(ts) ==
    LET independent == groupTasksForTeams(ts).independent
        maxParallel == groupTasksForTeams(ts).maxParallel
    IN  IF Len(independent) = 0
        THEN [count |-> 1, reason |-> "All tasks have dependencies"]
        ELSE IF Len(independent) = 1
        THEN [count |-> 1, reason |-> "Only one independent task"]
        ELSE IF Len(independent) <= 3
        THEN [count |-> Len(independent), reason |-> "Small number of independent tasks"]
        ELSE [count |-> maxParallel, reason |-> "Adaptive"]

\* The dependents.forEach of calculateExecutionOrder.
RECURSIVE ReduceInDegree(_, _, _)
ReduceInDegree(dependents, inDegree, queue) ==
    IF dependents = <<>> THEN [inDegree |-> inDegree, queue |-> queue]
    ELSE LET depId == Head(dependents)
             currentDegree == inDegree[depId]
         IN  ReduceInDegree(Tail(dependents),
                            [inDegree EXCEPT ![depId] = currentDegree - 1],
                            IF currentDegree - 1 = 0 THEN Append(queue, depId)
                                                     ELSE queue)

\* The while (queue.length > 0) loop of calculateExecutionOrder.
RECURSIVE ProcessQueue(_, _, _, _)
ProcessQueue(dependencyGraph, inDegree, queue, order) ==
    IF queue = <<>> THEN order
    ELSE LET current == Head(queue)
             r == ReduceInDegree(getDependentTasks(current, dependencyGraph),
                                 inDegree, Tail(queue))
         IN  ProcessQueue(dependencyGraph, r.inDegree, r.queue, Append(order, current))

calculateExecutionOrder(ts, dependencyGraph) ==
    LET inDegree == [id \in TaskIds(ts) |-> Len(ts[id].dependencies)]
        zero(t) == inDegree[t.id] = 0
        sel == SelectSeq(ts, zero)
        queue == [i \in 1..Len(sel) |-> sel[i].id]
    IN  ProcessQueue(dependencyGraph, inDegree, queue, <<>>)

\* Variant: an order that is too short is accepted.
validateDependenciesLenient(ts) ==
    LET graph == buildDependencyGraph(ts)
        order == calculateExecutionOrder(ts, graph)
    IN  [set |-> TRUE,
         valid |-> Len(order) <= Len(ts),
         cycleDetected |-> Len(order) > Len(ts)]

validateDependencies(ts) ==
    LET graph == buildDependencyGraph(ts)
        order == calculateExecutionOrder(ts, graph)
    IN  [set |-> TRUE,
         valid |-> Len(order) = Len(ts),
         cycleDetected |-> Len(order) # Len(ts)]

(***************************************************************************)
(* dispatcher.js                                                           *)
(***************************************************************************)
\* Stands for the initial minTasks = Infinity: larger than any taskCount (0 or 1).
Infinity == 2

\* The activeTeammates.forEach of findAvailableTeammate, from teammate id on.
RECURSIVE ScanTeammates(_, _, _, _)
ScanTeammates(tm, id, minTasks, availableId) ==
    IF id \notin DOMAIN tm THEN availableId
    ELSE LET teammate == tm[id]
             taskCount == IF teammate.currentTask # NoTask THEN 1 ELSE 0
         IN  IF teammate.status \in {"idle", "working"} /\ taskCount < minTasks
             THEN ScanTeammates(tm, id + 1, taskCount, id)
             ELSE ScanTeammates(tm, id + 1, minTasks, availableId)

findAvailableTeammate(tm) == ScanTeammates(tm, 0, Infinity, 0)

\* The synchronous part of dispatchToSubagent / dispatchToAgentTeams: the
\* chosen teammate's currentTask and status are overwritten.
dispatch(tm, taskId) ==
    LET teammateId == findAvailableTeammate(tm)
    IN  [tm EXCEPT ![teammateId] = [currentTask |-> taskId, status |-> "working"]]

\* The activeTeammates.forEach of completeTask.
completeTask(tm, taskId) ==
    [id \in DOMAIN tm |->
        IF tm[id].currentTask = taskId
        THEN [currentTask |-> NoTask, status |-> "idle"]
        ELSE tm[id]]

\* The activeTeammates.forEach of failTask.
failTask(tm, taskId) ==
    [id \in DOMAIN tm |->
        IF tm[id].currentTask = taskId
        THEN [currentTask |-> NoTask, status |-> "failed"]
        ELSE tm[id]]

RECURSIVE dispatchAll(_, _)
dispatchAll(tm, ids) ==
    IF ids = <<>> THEN tm
    ELSE dispatchAll(dispatch(tm, Head(ids)), Tail(ids))

(***************************************************************************)
(* team-manager.js                                                         *)
(***************************************************************************)
CompletedIds == {completedTasks[i].id : i \in 1..Len(completedTasks)}
BlockedIds == SeqToSet(blockedTasks)
FailedIds == {id \in DOMAIN taskResults :
                 taskResults[id].set /\ ~taskResults[id].success}

\* Tasks handed to the dispatcher whose dispatchAndMonitor has not finished.
InFlight == {id \in DOMAIN taskPc : taskPc[id] \in {"dispatching", "running", "checking"}}
\* Tasks that were handed to the dispatcher at some point.
Dispatched == {id \in DOMAIN taskPc : taskPc[id] # "pending"}

\* Variant: the loop bound ignores the teammate count.
IndependentToDispatchAll(independent, count) == independent

\* The for loop of dispatchIndependentTasks: the tasks it dispatches.
IndependentToDispatch(independent, count) ==
    SubSeq(independent, 1, Min2(Len(independent), count))

\* Variant: the loop pushes without the includes() test.
RECURSIVE BlockDependentsUnchecked(_, _)
BlockDependentsUnchecked(blocked, dependents) ==
    IF dependents = <<>> THEN blocked
    ELSE BlockDependentsUnchecked(Append(blocked, Head(dependents)), Tail(dependents))

\* The for loop of handleTaskFailure over the dependents.
RECURSIVE BlockDependents(_, _)
BlockDependents(blocked, dependents) ==
    IF dependents = <<>> THEN blocked
    ELSE LET depId == Head(dependents)
         IN  BlockDependents(IF ~Includes(blocked, depId) THEN Append(blocked, depId)
                                                          ELSE blocked,
                             Tail(dependents))

\* Variant: the failed task is pushed to blockedTasks along with its dependents.
handleTaskFailureBlockSelf(taskId, blocked, results) ==
    LET groups == groupTasksForTeams(tasks)
        dependents == getDependentTasks(taskId, groups.dependencyGraph)
    IN  [blockedTasks |-> BlockDependents(blocked, Append(dependents, taskId)),
         taskResults |-> [results EXCEPT ![taskId] =
                             [set |-> TRUE, success |-> FALSE,
                              blockedDependents |-> dependents]]]

handleTaskFailure(taskId, blocked, results) ==
    LET groups == groupTasksForTeams(tasks)
        dependents == getDependentTasks(taskId, groups.dependencyGraph)
    IN  [blockedTasks |-> BlockDependents(blocked, dependents),
         taskResults |-> [results EXCEPT ![taskId] =
                             [set |-> TRUE, success |-> FALSE,
                              blockedDependents |-> dependents]]]

\* Variant: only a dependency that completed aligned counts as complete.
RECURSIVE ScanDependenciesAligned(_)
ScanDependenciesAligned(dependencies) ==
    IF dependencies = <<>> THEN [kind |-> "pass", dep |-> NoTask]
    ELSE LET depId == Head(dependencies)
             isComplete == \E i \in 1..Len(completedTasks) :
                              /\ completedTasks[i].id = depId
                              /\ completedTasks[i].alignment.status = "aligned"
             isBlocked == Includes(blockedTasks, depId)
             isRunning == Includes(runningTasks, depId)
         IN  IF ~isComplete /\ ~isBlocked /\ ~isRunning
             THEN [kind |-> "waitStart", dep |-> depId]
             ELSE IF ~isComplete /\ ~isBlocked
             THEN [kind |-> "sleep", dep |-> depId]
             ELSE ScanDependenciesAligned(Tail(dependencies))

\* waitForDependencies(task) up to its first suspension.  "pass": every
\* dependency was let through; "waitStart": it suspends in
\* waitForDependencyStart(dep); "sleep": it enters the while loop and suspends
\* in sleep(1000), after which the body assigns to the const isComplete (a
\* TypeError).
RECURSIVE ScanDependencies(_)
ScanDependencies(dependencies) ==
    IF dependencies = <<>> THEN [kind |-> "pass", dep |-> NoTask]
    ELSE LET depId == Head(dependencies)
             isComplete == depId \in CompletedIds
             isBlocked == Includes(blockedTasks, depId)
             isRunning == Includes(runningTasks, depId)
         IN  IF ~isComplete /\ ~isBlocked /\ ~isRunning
             THEN [kind |-> "waitStart", dep |-> depId]
             ELSE IF ~isComplete /\ ~isBlocked
             THEN [kind |-> "sleep", dep |-> depId]
             ELSE ScanDependencies(Tail(dependencies))

\* The loop condition of waitForDependencyStart.
NotStarted(depId) ==
    /\ ~Includes(runningTasks, depId)
    /\ depId \notin CompletedIds
    /\ ~Includes(blockedTasks, depId)

DependentTasks == groupTasksForTeams(tasks).dependent

TypeOK ==
    /\ teammateCount \in Nat
    /\ oversight \in BOOLEAN
    /\ pc \in {"start", "awaitIndependent", "dependent", "waitStart", "sleep",
               "awaitDependent", "returned", "threw"}
    /\ \A id \in DOMAIN taskPc :
          taskPc[id] \in {"pending", "dispatching", "running", "checking",
                          "completed", "failed"}

(***************************************************************************)
(* Init: the state after new TeamManager(plan, teammateCount, oversight).  *)
(***************************************************************************)
InitManager ==
    /\ activeTeammates =
          [i \in 0..(teammateCount - 1) |-> [currentTask |-> NoTask, status |-> "idle"]]
    /\ completedTasks = <<>>
    /\ blockedTasks = <<>>
    /\ runningTasks = <<>>
    /\ taskResults = [id \in TaskIds(tasks) |-> NoResult]
    /\ taskPc = [id \in TaskIds(tasks) |-> "pending"]
    /\ pc = "start"
    /\ depIdx = 0
    /\ waitDep = NoTask
    /\ validation = NoResult
    /\ oversightCalls = [id \in TaskIds(tasks) |-> "none"]
    /\ summary = NoResult
    /\ decisionRequests = <<>>
    /\ alertHistory = <<>>
    /\ notificationQueue = <<>>
    /\ criticalAlertsSent = FALSE
    /\ immediateLog = <<>>
    /\ clock = 0
    /\ returnedHistory = <<>>
    /\ lastBatch = NoResult
    /\ reports = <<>>
    /\ grouping = NoResult
    /\ suggestion = NoResult
    /\ dispatcherCompleted = [id \in TaskIds(tasks) |-> NoResult]
    /\ executionOrder = NoResult
    /\ checkResult = NoCall

Init ==
    /\ goalTags = NoGoals
    /\ tests = ZeroTests
    /\ styleAnalysis = PlaceholderStyle
    /\ alerts = <<>>
    /\ taskResultsArg = <<>>
    /\ goalsArg = <<>>
    /\ \/ /\ tasks \in TaskLists \cup {Diamond}
          /\ teammateCount \in 1..MaxWorkers
          /\ oversight \in BOOLEAN
       \/ /\ tasks = WideList
          /\ teammateCount = CAP + 1
          /\ oversight = FALSE
    /\ InitManager

(***************************************************************************)
(* execute()                                                               *)
(***************************************************************************)
schedVars == <<pc, depIdx, waitDep>>
inputVars == <<tasks, teammateCount, oversight, validation>>
\* The collaborators execute() never reaches: nothing in team-manager.js calls
\* askUserDecision, the AlertSystem, generateMilestoneReport or
\* AlignmentChecker.checkAll.
alertVars == <<alertHistory, alerts, notificationQueue, criticalAlertsSent,
               immediateLog, clock, returnedHistory, lastBatch>>
reportVars == <<taskResultsArg, goalsArg, reports>>
managerVars == <<tasks, teammateCount, oversight, activeTeammates, completedTasks,
                 blockedTasks, runningTasks, taskResults, taskPc, schedVars,
                 validation, oversightCalls, summary, decisionRequests,
                 dispatcherCompleted>>
graphVars == <<grouping, suggestion, executionOrder>>
collabVars == <<decisionRequests, alertVars, reportVars, graphVars, goalTags, tests, styleAnalysis,
                checkResult, dispatcherCompleted>>

\* execute() up to "await Promise.all(promises)": the for loop of
\* dispatchIndependentTasks calls dispatchAndMonitor, which runs synchronously
\* up to the dispatcher's await, for each of the first teammateCount
\* independent tasks.
DispatchIndependentTasks ==
    /\ pc = "start"
    /\ LET groups == groupTasksForTeams(tasks)
           batch == IndependentToDispatch(groups.independent, teammateCount)
           ids == [i \in 1..Len(batch) |-> batch[i].id]
       IN  /\ activeTeammates' = dispatchAll(activeTeammates, ids)
           /\ taskPc' = [id \in DOMAIN taskPc |->
                            IF id \in SeqToSet(ids) THEN "dispatching" ELSE taskPc[id]]
    /\ pc' = "awaitIndependent"
    /\ UNCHANGED <<completedTasks, blockedTasks, runningTasks, taskResults,
                   depIdx, waitDep, inputVars, collabVars, oversightCalls, summary>>

\* dispatchAndMonitor resumes after "await this.dispatcher.dispatch(...)".
DispatchResolved(id) ==
    /\ taskPc[id] = "dispatching"
    /\ \E success \in BOOLEAN :
          IF success
          THEN /\ runningTasks' = Append(runningTasks, id)
               /\ taskPc' = [taskPc EXCEPT ![id] = "running"]
               /\ UNCHANGED <<blockedTasks, taskResults>>
          ELSE LET f == handleTaskFailure(id, blockedTasks, taskResults)
               IN  /\ blockedTasks' = f.blockedTasks
                   /\ taskResults' = f.taskResults
                   /\ taskPc' = [taskPc EXCEPT ![id] = "failed"]
                   /\ UNCHANGED runningTasks
    /\ UNCHANGED <<activeTeammates, completedTasks, schedVars, inputVars, collabVars, oversightCalls, summary>>

\* Variant: the completion is recorded before the oversight check is run.
TaskCompletionUnchecked(id) ==
    /\ taskPc[id] = "running"
    /\ runningTasks' = SelectSeq(runningTasks, LAMBDA x : x # id)
    /\ \E success \in BOOLEAN :
          IF success
          THEN LET alignment == [status |-> "pending", critical |-> FALSE]
               IN  /\ completedTasks' = Append(completedTasks,
                                               [id |-> id, alignment |-> alignment])
                   /\ taskResults' = [taskResults EXCEPT ![id] =
                                         [set |-> TRUE, success |-> TRUE,
                                          alignment |-> alignment]]
                   /\ taskPc' = [taskPc EXCEPT ![id] = "completed"]
                   /\ UNCHANGED blockedTasks
          ELSE LET f == handleTaskFailure(id, blockedTasks, taskResults)
               IN  /\ blockedTasks' = f.blockedTasks
                   /\ taskResults' = f.taskResults
                   /\ taskPc' = [taskPc EXCEPT ![id] = "failed"]
                   /\ UNCHANGED completedTasks
    /\ UNCHANGED <<activeTeammates, schedVars, inputVars, collabVars, oversightCalls,
                   summary>>

\* dispatchAndMonitor resumes after "await this.waitForTaskCompletion(...)".
TaskCompletion(id) ==
    /\ taskPc[id] = "running"
    /\ runningTasks' = SelectSeq(runningTasks, LAMBDA x : x # id)
    /\ \E success \in BOOLEAN :
          IF success
          THEN /\ taskPc' = [taskPc EXCEPT ![id] = "checking"]
               /\ UNCHANGED <<blockedTasks, taskResults>>
          ELSE LET f == handleTaskFailure(id, blockedTasks, taskResults)
               IN  /\ blockedTasks' = f.blockedTasks
                   /\ taskResults' = f.taskResults
                   /\ taskPc' = [taskPc EXCEPT ![id] = "failed"]
    /\ UNCHANGED <<activeTeammates, completedTasks, schedVars, inputVars, collabVars, oversightCalls, summary>>

\* How this.oversight.checkAlignment can answer: the three objects the
\* monitor's per-task check returns ({status, issues, critical}; "critical" is
\* a misaligned answer with critical = true), or an exception.
CheckAlignmentAnswers == {"aligned", "misaligned", "critical", "throws"}

\* Variant: the catch block reports the task as aligned.
runOversightCheckSwallow(answer) ==
    IF ~oversight THEN [status |-> "not-checked", critical |-> FALSE]
    ELSE [status |-> IF answer \in {"aligned", "throws"} THEN "aligned" ELSE "misaligned",
          critical |-> answer = "critical"]

\* runOversightCheck: the alignment object it returns.  The objects built
\* here ('not-checked', 'error') have no critical field, which reads as false.
runOversightCheck(answer) ==
    IF ~oversight THEN [status |-> "not-checked", critical |-> FALSE]
    ELSE IF answer = "throws" THEN [status |-> "error", critical |-> FALSE]
    ELSE [status |-> IF answer = "aligned" THEN "aligned" ELSE "misaligned",
          critical |-> answer = "critical"]

\* Variant: the completion record replaces the list instead of joining it.
OversightResolvedReplacing(id) ==
    /\ taskPc[id] = "checking"
    /\ \E answer \in (IF oversight THEN CheckAlignmentAnswers ELSE {"none"}) :
          LET alignment == runOversightCheck(answer)
          IN  /\ oversightCalls' = [oversightCalls EXCEPT ![id] = answer]
              /\ completedTasks' = <<[id |-> id, alignment |-> alignment]>>
              /\ taskResults' = [taskResults EXCEPT ![id] =
                                    [set |-> TRUE, success |-> TRUE,
                                     alignment |-> alignment]]
    /\ taskPc' = [taskPc EXCEPT ![id] = "completed"]
    /\ UNCHANGED <<activeTeammates, blockedTasks, runningTasks, schedVars, inputVars,
                   collabVars, summary>>

\* dispatchAndMonitor resumes after "await this.runOversightCheck(...)" and
\* records the completion.
OversightResolved(id) ==
    /\ taskPc[id] = "checking"
    /\ \E answer \in (IF oversight THEN CheckAlignmentAnswers ELSE {"none"}) :
          LET alignment == runOversightCheck(answer)
          IN  /\ oversightCalls' = [oversightCalls EXCEPT ![id] = answer]
              /\ completedTasks' = Append(completedTasks,
                                          [id |-> id, alignment |-> alignment])
              /\ taskResults' = [taskResults EXCEPT ![id] =
                                    [set |-> TRUE, success |-> TRUE,
                                     alignment |-> alignment]]
    /\ taskPc' = [taskPc EXCEPT ![id] = "completed"]
    /\ UNCHANGED <<activeTeammates, blockedTasks, runningTasks, schedVars, inputVars,
                   collabVars, summary>>

\* Promise.all of dispatchIndependentTasks resolves.
IndependentDone ==
    /\ pc = "awaitIndependent"
    /\ InFlight = {}
    /\ pc' = "dependent"
    /\ depIdx' = 1
    /\ UNCHANGED <<activeTeammates, completedTasks, blockedTasks, runningTasks,
                   taskResults, taskPc, waitDep, inputVars, collabVars, oversightCalls, summary>>

\* What follows waitForDependencies(task) in the loop of dispatchDependentTasks.
AfterWait(task) ==
    IF ~Includes(blockedTasks, task.id)
    THEN /\ activeTeammates' = dispatch(activeTeammates, task.id)
         /\ taskPc' = [taskPc EXCEPT ![task.id] = "dispatching"]
         /\ pc' = "awaitDependent"
         /\ UNCHANGED depIdx
    ELSE /\ pc' = "dependent"
         /\ depIdx' = depIdx + 1
         /\ UNCHANGED <<activeTeammates, taskPc>>

\* One iteration of the loop of dispatchDependentTasks, up to its suspension.
WaitForDependencies ==
    /\ pc = "dependent"
    /\ depIdx <= Len(DependentTasks)
    /\ LET task == DependentTasks[depIdx]
           w == ScanDependencies(task.dependencies)
       IN  CASE w.kind = "pass" ->
                  /\ AfterWait(task)
                  /\ UNCHANGED waitDep
             [] w.kind = "waitStart" ->
                  /\ pc' = "waitStart"
                  /\ waitDep' = w.dep
                  /\ UNCHANGED <<activeTeammates, taskPc, depIdx>>
             [] OTHER ->
                  /\ pc' = "sleep"
                  /\ UNCHANGED <<activeTeammates, taskPc, depIdx, waitDep>>
    /\ UNCHANGED <<completedTasks, blockedTasks, runningTasks, taskResults,
                   inputVars, collabVars, oversightCalls, summary>>

\* A timer of waitForDependencies fires.  sleep(500) of waitForDependencyStart:
\* the loop condition is read again, and when the dependency has started,
\* waitForDependencies goes on to its while loop with the isComplete and
\* isBlocked it read before the wait (both false) and suspends in sleep(1000).
\* sleep(1000) of the while loop: the assignment to the const isComplete
\* throws.
SleepFires ==
    /\ pc \in {"waitStart", "sleep"}
    /\ IF pc = "waitStart"
       THEN IF NotStarted(waitDep)
            THEN UNCHANGED <<pc, waitDep>>
            ELSE /\ pc' = "sleep"
                 /\ waitDep' = NoTask
       ELSE /\ pc' = "threw"
            /\ UNCHANGED waitDep
    /\ UNCHANGED <<activeTeammates, completedTasks, blockedTasks, runningTasks,
                   taskResults, taskPc, depIdx, inputVars, collabVars, oversightCalls, summary>>

\* Variant: the loop goes on without awaiting dispatchAndMonitor.
DependentDoneUnawaited ==
    /\ pc = "awaitDependent"
    /\ pc' = "dependent"
    /\ depIdx' = depIdx + 1
    /\ UNCHANGED <<activeTeammates, completedTasks, blockedTasks, runningTasks,
                   taskResults, taskPc, waitDep, inputVars, collabVars, oversightCalls, summary>>

\* "await this.dispatchAndMonitor(task)" of dispatchDependentTasks resolves.
DependentDone ==
    /\ pc = "awaitDependent"
    /\ InFlight = {}
    /\ pc' = "dependent"
    /\ depIdx' = depIdx + 1
    /\ UNCHANGED <<activeTeammates, completedTasks, blockedTasks, runningTasks,
                   taskResults, taskPc, waitDep, inputVars, collabVars, oversightCalls, summary>>

(***************************************************************************)
(* Math.round((a / t) * 100) as JavaScript computes it, in IEEE 754        *)
(* doubles: a / t is rounded to 53 significant bits (ties to even), the    *)
(* product with 100 is rounded to 53 significant bits again, and           *)
(* Math.round takes the nearest integer of that (ties upwards).  The       *)
(* 53-bit significand is kept in three limbs of 17, 18 and 18 bits.        *)
(***************************************************************************)
Limb == 2 ^ 18

RECURSIVE BitLength(_)
BitLength(n) == IF n = 0 THEN 0 ELSE 1 + BitLength(n \div 2)

\* The least e with a * 2^e >= t: a / t lies in [2^-e, 2^(1-e)).
RECURSIVE BinaryExponent(_, _, _)
BinaryExponent(a, t, e) == IF a * 2 ^ e >= t THEN e ELSE BinaryExponent(a, t, e + 1)

\* 1 when a value cut after its last kept digit is rounded upwards
\* (round to nearest, ties to even), else 0.
RoundUp(twiceRemainder, unit, lastKept) ==
    IF twiceRemainder > unit \/ (twiceRemainder = unit /\ lastKept % 2 = 1) THEN 1 ELSE 0

\* The significand of the double nearest to a / t (0 < a < t), as limbs.
Quotient(a, t, e) ==
    LET n == a * 2 ^ (e - 1)
        d1 == (n * 2 ^ 17) \div t
        r1 == (n * 2 ^ 17) % t
        d2 == (r1 * Limb) \div t
        r2 == (r1 * Limb) % t
        d3 == (r2 * Limb) \div t
        r3 == (r2 * Limb) % t
        s3 == d3 + RoundUp(2 * r3, t, d3)
        s2 == d2 + s3 \div Limb
    IN  <<d1 + s2 \div Limb, s2 % Limb, s3 % Limb>>

\* The top limb of the double nearest to 100 times the double with
\* significand m.
TimesHundred(m) ==
    LET p3 == m[3] * 100
        p2 == m[2] * 100 + p3 \div Limb
        p1 == m[1] * 100 + p2 \div Limb
        l3 == p3 % Limb
        l2 == p2 % Limb
        dropped == BitLength(p1) + 36 - 53
        kept3 == l3 \div 2 ^ dropped
        k3 == kept3 + RoundUp(2 * (l3 % 2 ^ dropped), 2 ^ dropped, kept3)
        k2 == l2 + k3 \div 2 ^ (18 - dropped)
    IN  p1 + k2 \div Limb

MathRoundPercent(a, t) ==
    IF a = 0 THEN 0
    ELSE IF a = t THEN 100
    ELSE LET e == BinaryExponent(a, t, 0)
             top == TimesHundred(Quotient(a, t, e))
         IN  IF e + 15 > 24 THEN 0
             ELSE (top \div 2 ^ (e + 16)) + ((top \div 2 ^ (e + 15)) % 2)

CountStatus(status) ==
    Len(SelectSeq(completedTasks, LAMBDA t : t.alignment.status = status))

generateSummary ==
    LET completed == Len(completedTasks)
        blocked == Len(blockedTasks)
        total == Len(tasks)
        aligned == CountStatus("aligned")
        misaligned == CountStatus("misaligned")
    IN  [set |-> TRUE,
         totalTasks |-> total,
         completedTasks |-> completed,
         blockedTasks |-> blocked,
         alignedTasks |-> aligned,
         misalignedTasks |-> misaligned,
         completionRate |-> IF total > 0 THEN MathRoundPercent(completed, total) ELSE 0,
         alignmentRate |-> IF completed > 0 THEN MathRoundPercent(aligned, completed) ELSE 0]

\* execute() returns {completed, blocked, results, summary}.
Return ==
    /\ pc = "dependent"
    /\ depIdx > Len(DependentTasks)
    /\ pc' = "returned"
    /\ summary' = generateSummary
    /\ UNCHANGED <<activeTeammates, completedTasks, blockedTasks, runningTasks,
                   taskResults, taskPc, depIdx, waitDep, inputVars, collabVars,
                   oversightCalls>>

Next ==
    \/ DispatchIndependentTasks
    \/ \E id \in DOMAIN taskPc : DispatchResolved(id)
    \/ \E id \in DOMAIN taskPc : TaskCompletion(id)
    \/ \E id \in DOMAIN taskPc : OversightResolved(id)
    \/ IndependentDone
    \/ WaitForDependencies
    \/ SleepFires
    \/ DependentDone
    \/ Return

Spec == Init /\ [][Next]_vars

(***************************************************************************)
(* The helpers of task-grouping.js called on a task list.                  *)
(***************************************************************************)
GraphInit ==
    /\ tasks \in TaskLists \cup {Diamond} \cup WideLists
    /\ teammateCount = 1
    /\ oversight = FALSE
    /\ goalTags = NoGoals
    /\ tests = ZeroTests
    /\ styleAnalysis = PlaceholderStyle
    /\ alerts = <<>>
    /\ taskResultsArg = <<>>
    /\ goalsArg = <<>>
    /\ InitManager

ValidateDependencies ==
    /\ ~validation.set
    /\ validation' = validateDependencies(tasks)
    /\ UNCHANGED <<tasks, teammateCount, oversight, activeTeammates, completedTasks,
                   blockedTasks, runningTasks, taskResults, taskPc, schedVars,
                   collabVars, oversightCalls, summary>>

GroupTasksForTeams ==
    /\ ~grouping.set
    /\ grouping' = [set |-> TRUE, result |-> groupTasksForTeams(tasks)]
    /\ UNCHANGED <<managerVars, suggestion, executionOrder, alertVars, reportVars,
                   goalTags, tests, styleAnalysis, checkResult>>

SuggestTeammateCount ==
    /\ ~suggestion.set
    /\ suggestion' = [set |-> TRUE, result |-> suggestTeammateCount(tasks)]
    /\ UNCHANGED <<managerVars, grouping, executionOrder, alertVars, reportVars,
                   goalTags, tests, styleAnalysis, checkResult>>

CalculateExecutionOrder ==
    /\ ~executionOrder.set
    /\ executionOrder' =
          [set |-> TRUE,
           order |-> calculateExecutionOrder(tasks, buildDependencyGraph(tasks))]
    /\ UNCHANGED <<managerVars, grouping, suggestion, alertVars, reportVars, goalTags,
                   tests, styleAnalysis, checkResult>>

GraphNext ==
    \/ ValidateDependencies
    \/ GroupTasksForTeams
    \/ SuggestTeammateCount
    \/ CalculateExecutionOrder

GraphSpec == GraphInit /\ [][GraphNext]_vars

(***************************************************************************)
(* goal-alignment-monitor/lib/checkers.js                                  *)
(*                                                                         *)
(* A JavaScript string is a sequence of one-character strings; undefined   *)
(* and the empty string (both falsy) are the empty sequence.               *)
(***************************************************************************)
StrNone == <<"n", "o", "n", "e">>
StrStandard == <<"s", "t", "a", "n", "d", "a", "r", "d">>
StrFunctional == <<"f", "u", "n", "c", "t", "i", "o", "n", "a", "l">>
StrOop == <<"o", "o", "p">>
StrUnit == <<"u", "n", "i", "t">>
StrUnitE2E == <<"U", "n", "i", "t", " ", "+", " ", "e", "2", "e">>
StrJwt == <<"J", "W", "T">>
StrUnder1ms == <<"<", " ", "1", "m", "s">>
StrUnder1msAnd2Concurrent ==
    <<"<", "1", "m", "s", ",", " ", "2", " ",
      "c", "o", "n", "c", "u", "r", "r", "e", "n", "t">>
StrBackslashD == <<"<", "\\", "\\", "d", "m", "s">>

\* String.prototype.toLowerCase on the letters that occur in the inputs.
LowerChar(c) ==
    CASE c = "J" -> "j" [] c = "W" -> "w" [] c = "T" -> "t" [] c = "U" -> "u"
      [] OTHER -> c
toLowerCase(str) == [i \in 1..Len(str) |-> LowerChar(str[i])]

\* lit occurs in str at position i.
HasAt(str, i, lit) ==
    /\ i >= 1
    /\ i + Len(lit) - 1 <= Len(str)
    /\ \A k \in 1..Len(lit) : str[i + k - 1] = lit[k]

\* String.prototype.includes.
StrIncludes(str, lit) == \E i \in 1..(Len(str) + 1) : HasAt(str, i, lit)

\* Length of the longest run of characters of C that starts at position i.
RECURSIVE Run(_, _, _)
Run(str, i, C) ==
    IF i <= Len(str) /\ str[i] \in C THEN 1 + Run(str, i + 1, C) ELSE 0

\* String.prototype.trim for blanks.
RECURSIVE trimEnd(_)
trimEnd(str) ==
    IF str # <<>> /\ str[Len(str)] = " " THEN trimEnd(SubSeq(str, 1, Len(str) - 1))
    ELSE str
trim(str) == trimEnd(SubSeq(str, 1 + Run(str, 1, {" "}), Len(str)))

\* String.prototype.split('+').
RECURSIVE SplitPlus(_, _)
SplitPlus(str, current) ==
    IF str = <<>> THEN <<current>>
    ELSE IF Head(str) = "+" THEN <<current>> \o SplitPlus(Tail(str), <<>>)
    ELSE SplitPlus(Tail(str), Append(current, Head(str)))
split(str) == SplitPlus(str, <<>>)

\* JavaScript numbers: a natural number or NaN.
Num(n) == [nan |-> FALSE, val |-> n]
NaN == [nan |-> TRUE, val |-> 0]
\* a > b and a < b: false when either side is NaN.
Greater(a, b) == ~a.nan /\ ~b.nan /\ a.val > b.val
Less(a, b) == ~a.nan /\ ~b.nan /\ a.val < b.val

DigitChars == <<"0", "1", "2", "3", "4", "5", "6", "7", "8", "9">>
DigitValue(c) == (CHOOSE i \in 1..Len(DigitChars) : DigitChars[i] = c) - 1

RECURSIVE Decimal(_)
Decimal(digits) ==
    IF digits = <<>> THEN 0
    ELSE Decimal(SubSeq(digits, 1, Len(digits) - 1)) * Len(DigitChars)
            + DigitValue(digits[Len(digits)])

\* parseInt(str): the leading digits after blanks, NaN when there are none.
parseInt(str) ==
    LET start == 1 + Run(str, 1, {" "})
        k == Run(str, start, SeqToSet(DigitChars))
    IN  IF k = 0 THEN NaN ELSE Num(Decimal(SubSeq(str, start, start + k - 1)))

NoMatch == [matched |-> FALSE, group |-> <<>>]

\* The regex literal /<\\s*(\\d+)ms/i at position i: "<", a backslash, any
\* number of "s", then the group (a backslash and one or more "d"), then "ms".
TimeMatchAt(str, i) ==
    LET low == toLowerCase(str)
        j == i + 2 + Run(low, i + 2, {"s"})
        k == Run(low, j + 1, {"d"})
        matched == /\ HasAt(low, i, <<"<", "\\">>)
                   /\ HasAt(low, j, <<"\\">>)
                   /\ k >= 1
                   /\ HasAt(low, j + 1 + k, <<"m", "s">>)
    IN  IF matched THEN [matched |-> TRUE, group |-> SubSeq(str, j, j + k)]
        ELSE NoMatch

\* requirement.match(/<\\s*(\\d+)ms/i): the leftmost match.
timeMatch(str) ==
    LET hits == {i \in 1..Len(str) : TimeMatchAt(str, i).matched}
    IN  IF hits = {} THEN NoMatch
        ELSE TimeMatchAt(str, CHOOSE i \in hits : \A h \in hits : i <= h)

\* The regex literal /(\\d+)\\s*concurrent/i at position i: the group (a
\* backslash and one or more "d"), a backslash, any number of "s", "concurrent".
ThroughputMatchAt(str, i) ==
    LET low == toLowerCase(str)
        k == Run(low, i + 1, {"d"})
        r == Run(low, i + 2 + k, {"s"})
        matched == /\ HasAt(low, i, <<"\\">>)
                   /\ k >= 1
                   /\ HasAt(low, i + 1 + k, <<"\\">>)
                   /\ HasAt(low, i + 2 + k + r,
                            <<"c", "o", "n", "c", "u", "r", "r", "e", "n", "t">>)
    IN  IF matched THEN [matched |-> TRUE, group |-> SubSeq(str, i, i + k)]
        ELSE NoMatch

throughputMatch(str) ==
    LET hits == {i \in 1..Len(str) : ThroughputMatchAt(str, i).matched}
    IN  IF hits = {} THEN NoMatch
        ELSE ThroughputMatchAt(str, CHOOSE i \in hits : \A h \in hits : i <= h)

Issue(message, severity) == [message |-> message, severity |-> severity]
\* The issue pushed when cond holds.
When(cond, issue) == IF cond THEN <<issue>> ELSE <<>>
HasCritical(issues) == \E i \in 1..Len(issues) : issues[i].severity = "critical"

StrMicroservices ==
    <<"m", "i", "c", "r", "o", "s", "e", "r", "v", "i", "c", "e", "s">>
StrMonolithic == <<"m", "o", "n", "o", "l", "i", "t", "h", "i", "c">>

\* ArchitectureChecker.analyzeStructure: a placeholder that ignores the code.
analyzeStructure ==
    [hasCircularDeps |-> FALSE, hasServiceBoundaries |-> TRUE,
     hasMutableGlobals |-> FALSE, hasExternalAPIs |-> FALSE, complexity |-> 5]

\* ArchitectureChecker.check
ArchitectureChecker(requirement) ==
    LET structure == analyzeStructure
        req == toLowerCase(requirement)
        issues ==
            CASE req = StrMicroservices ->
                   When(structure.hasCircularDeps,
                        Issue("Circular dependencies detected", "critical"))
                   \o When(~structure.hasServiceBoundaries,
                           Issue("Missing service boundaries", "warning"))
              [] req = StrMonolithic ->
                   When(structure.hasExternalAPIs,
                        Issue("External APIs in monolithic architecture", "info"))
              [] req = StrFunctional ->
                   When(structure.hasMutableGlobals,
                        Issue("Mutable global state in functional code", "warning"))
              [] OTHER ->
                   When(structure.complexity > 10,
                        Issue("High cyclomatic complexity", "warning"))
    IN  [passed |-> ~HasCritical(issues),
         issues |-> issues,
         critical |-> HasCritical(issues)]

\* StyleChecker.analyzeStyle is the detector of the style checker: the method
\* that ships with it is a placeholder that ignores the code and returns
\* PlaceholderStyle; a detector put in its place on the registered checker
\* returns what it finds.
analyzeStyle == styleAnalysis

\* StyleChecker.check
StyleChecker(requirement) ==
    LET style == analyzeStyle
        req == toLowerCase(requirement)
        issues ==
            CASE req = StrFunctional ->
                   When(style.hasClasses,
                        Issue("Classes found in functional code", "info"))
                   \o When(style.hasSideEffects,
                           Issue("Side effects detected", "warning"))
              [] req = StrOop ->
                   When(style.functionalPatternUsed,
                        Issue("Functional patterns in OOP code", "info"))
              [] req = <<"p", "r", "o", "c", "e", "d", "u", "r", "a", "l">> -> <<>>
              [] OTHER ->
                   When(style.lintingErrors > 0,
                        Issue(<<style.lintingErrors, " linting errors">>, "warning"))
                   \o When(style.formattingIssues > 0,
                           Issue(<<style.formattingIssues, " formatting issues">>,
                                 "info"))
    IN  [passed |-> issues = <<>>,
         issues |-> issues,
         critical |-> FALSE]

\* TestingChecker.check
TestingChecker(testResults, requirement) ==
    LET coverage == testResults.coverage
        parts == split(toLowerCase(requirement))
        requirements == {trim(parts[i]) : i \in 1..Len(parts)}
        issues ==
            (IF StrUnit \in requirements
             THEN IF testResults.unitTests = 0
                  THEN <<Issue("No unit tests found", "warning")>>
                  ELSE When(coverage < 80,
                            Issue(<<"Unit test coverage ", coverage, "% (target: 80%)">>,
                                  "info"))
             ELSE <<>>)
            \o When(<<"i", "n", "t", "e", "g", "r", "a", "t", "i", "o", "n">>
                        \in requirements
                    /\ testResults.integrationTests = 0,
                    Issue("No integration tests found", "warning"))
            \o When(<<"e", "2", "e">> \in requirements /\ testResults.e2eTests = 0,
                    Issue("No E2E tests found", "info"))
            \o When(testResults.failed > 0,
                    Issue(<<testResults.failed, " test(s) failed">>, "critical"))
    IN  [passed |-> ~HasCritical(issues),
         issues |-> issues,
         critical |-> HasCritical(issues),
         coverage |-> coverage]

\* PerformanceChecker.check
PerformanceChecker(testsArg, requirement) ==
    LET perfResults == testsArg.performance
        tm == timeMatch(requirement)
        pm == throughputMatch(requirement)
        targetTime == parseInt(tm.group)
        actualTime == Num(perfResults.avgResponseTime)
        targetConcurrent == parseInt(pm.group)
        actualConcurrent == Num(perfResults.concurrentCapacity)
        doubleTarget == IF targetTime.nan THEN NaN ELSE Num(targetTime.val * 2)
        issues ==
            When(tm.matched /\ Greater(actualTime, targetTime),
                 Issue(<<"Response time ", actualTime, "ms exceeds target ",
                         targetTime, "ms">>,
                       IF Greater(actualTime, doubleTarget) THEN "critical"
                                                            ELSE "warning"))
            \o When(pm.matched /\ Less(actualConcurrent, targetConcurrent),
                    Issue(<<"Concurrent capacity ", actualConcurrent,
                            " below target ", targetConcurrent>>, "warning"))
    IN  [passed |-> issues = <<>>,
         issues |-> issues,
         critical |-> HasCritical(issues)]

\* SecurityChecker.check
SecurityChecker(testsArg, requirement) ==
    LET securityResults == testsArg.security
        req == toLowerCase(requirement)
        issues ==
            When(securityResults.hardcodedSecrets,
                 Issue("Hardcoded secrets detected", "critical"))
            \o When(securityResults.sqlInjectionRisk,
                    Issue("SQL injection vulnerability detected", "critical"))
            \o When(securityResults.xssRisk,
                    Issue("XSS vulnerability risk detected", "warning"))
            \o When(StrIncludes(req, <<"j", "w", "t">>) /\ ~securityResults.usesJWT,
                    Issue("JWT authentication not implemented", "warning"))
            \o When(StrIncludes(req, <<"b", "c", "r", "y", "p", "t">>)
                        /\ ~securityResults.usesBcrypt,
                    Issue("bcrypt hashing not used for passwords", "warning"))
    IN  [passed |-> ~HasCritical(issues),
         issues |-> issues,
         critical |-> HasCritical(issues)]

\* checker.check(code, tests, goalValue) of the checker registered under key.
Check(key, testsArg, goalValue) ==
    CASE key = "architecture" -> ArchitectureChecker(goalValue)
      [] key = "style" -> StyleChecker(goalValue)
      [] key = "testing" -> TestingChecker(testsArg, goalValue)
      [] key = "performance" -> PerformanceChecker(testsArg, goalValue)
      [] key = "security" -> SecurityChecker(testsArg, goalValue)

\* The inner loop of combineResults: the issues of one result, with its key.
CategoryIssues(key, result) ==
    [i \in 1..Len(result.issues) |->
        [category |-> key,
         message |-> result.issues[i].message,
         severity |-> result.issues[i].severity]]

\* The outer loop of combineResults: the issues of the results that did not
\* pass, in key order.
RECURSIVE CollectIssues(_)
CollectIssues(results) ==
    IF results = <<>> THEN <<>>
    ELSE LET r == Head(results)
         IN  (IF ~r.result.passed THEN CategoryIssues(r.key, r.result) ELSE <<>>)
                \o CollectIssues(Tail(results))

\* Variant: the flag is assigned from each result in turn instead of or-ed.
combineResultsLastWins(results) ==
    LET issues == CollectIssues(results)
    IN  [passed |-> issues = <<>>,
         issues |-> issues,
         critical |-> results # <<>> /\ results[Len(results)].result.critical,
         details |-> results]

\* combineResults; results is the sequence of the entries [key, result].
combineResults(results) ==
    LET issues == CollectIssues(results)
    IN  [passed |-> issues = <<>>,
         issues |-> issues,
         critical |-> \E i \in 1..Len(results) :
                         ~results[i].result.passed /\ results[i].result.critical,
         details |-> results]

\* The test of checkAll that decides whether a checker is invoked.
Invoked(goalValue) ==
    goalValue # <<>> /\ goalValue # StrNone /\ goalValue # StrStandard

\* The loop of checkAll from the checker at position from on, up to its next
\* suspension.  The goal tag of each checker is read when the loop reaches it
\* and the tests object when the checker is called; "await checker.check(...)"
\* suspends the call with the value of the check.  After the last checker the
\* results are combined and checkAll returns: awaiting is then one more than
\* the number of checkers and value is the returned object.
Returned == Len(CheckerKeys) + 1

Advance(from, results) ==
    LET rest == {i \in from..Len(CheckerKeys) : Invoked(goalTags[CheckerKeys[i]])}
    IN  IF rest # {}
        THEN LET next == CHOOSE i \in rest : \A j \in rest : i <= j
             IN  [set |-> FALSE, awaiting |-> next,
                  results |-> results,
                  value |-> Check(CheckerKeys[next], tests, goalTags[CheckerKeys[next]])]
        ELSE [set |-> FALSE, awaiting |-> Returned,
              results |-> results,
              value |-> combineResults(results)]

(***************************************************************************)
(* AlignmentChecker.checkAll called on goal tags and test results.         *)
(***************************************************************************)
GoalTags ==
    [architecture : {<<>>, StrFunctional},
     style : {StrStandard, StrFunctional},
     testing : {<<>>, StrUnit, StrUnitE2E},
     performance : {StrNone, StrUnder1ms, StrUnder1msAnd2Concurrent, StrBackslashD},
     security : {<<>>, StrJwt}]

\* The answers of the style detector: the placeholder's, and that of a detector
\* that finds side effects.
StyleAnalyses == {PlaceholderStyle, [PlaceholderStyle EXCEPT !.hasSideEffects = TRUE]}

TestResults ==
    [coverage : {79, 80}, unitTests : {0, 1}, integrationTests : {0}, e2eTests : {0},
     failed : {0, 1},
     performance : [avgResponseTime : 0..MaxResponseTime, concurrentCapacity : {1}],
     security : [hardcodedSecrets : BOOLEAN, sqlInjectionRisk : {FALSE},
                 xssRisk : BOOLEAN, usesJWT : {FALSE}, usesBcrypt : {FALSE}]]

CheckerInit ==
    /\ tasks = <<>>
    /\ teammateCount = 1
    /\ oversight = FALSE
    /\ goalTags \in GoalTags
    /\ tests \in TestResults
    /\ styleAnalysis \in StyleAnalyses
    /\ alerts = <<>>
    /\ taskResultsArg = <<>>
    /\ goalsArg = <<>>
    /\ InitManager

checkerFrame ==
    <<tasks, teammateCount, oversight, activeTeammates, completedTasks,
      blockedTasks, runningTasks, taskResults, taskPc, schedVars,
      validation, oversightCalls, summary, decisionRequests,
      alertVars, reportVars, graphVars, styleAnalysis, dispatcherCompleted>>

\* checkAll is called: it runs up to its first await.
CheckAllCall ==
    /\ ~checkResult.set
    /\ checkResult.awaiting = 0
    /\ checkResult' = Advance(1, <<>>)
    /\ UNCHANGED <<checkerFrame, goalTags, tests>>

\* The awaited check resolves: its value is stored under its key and the loop
\* goes on.
CheckAllResume ==
    /\ ~checkResult.set
    /\ checkResult.awaiting \in 1..Len(CheckerKeys)
    /\ checkResult' =
          Advance(checkResult.awaiting + 1,
                  Append(checkResult.results,
                         [key |-> CheckerKeys[checkResult.awaiting],
                          result |-> checkResult.value]))
    /\ UNCHANGED <<checkerFrame, goalTags, tests>>

\* The promise of checkAll settles with the returned object.
CheckAllSettle ==
    /\ ~checkResult.set
    /\ checkResult.awaiting = Returned
    /\ LET r == checkResult.value
       IN  checkResult' = [set |-> TRUE, passed |-> r.passed, issues |-> r.issues,
                           critical |-> r.critical, details |-> r.details]
    /\ UNCHANGED <<checkerFrame, goalTags, tests>>

\* While checkAll is suspended its caller runs on the same objects: a test
\* run reports a failure, or takes it back.
TestsChange ==
    /\ ~checkResult.set
    /\ checkResult.awaiting \in 1..Len(CheckerKeys)
    /\ tests' = [tests EXCEPT !.failed = 1 - @]
    /\ UNCHANGED <<checkerFrame, goalTags, checkResult>>

\* While checkAll is suspended its caller deletes a goal tag that the loop has
\* not reached yet (the tags it has passed are not read again).
DeleteGoalTag(key) ==
    /\ ~checkResult.set
    /\ checkResult.awaiting \in 1..Len(CheckerKeys)
    /\ \E i \in (checkResult.awaiting + 1)..Len(CheckerKeys) : CheckerKeys[i] = key
    /\ goalTags[key] # <<>>
    /\ goalTags' = [goalTags EXCEPT ![key] = <<>>]
    /\ UNCHANGED <<checkerFrame, tests, checkResult>>

CheckerNext ==
    \/ CheckAllCall
    \/ CheckAllResume
    \/ CheckAllSettle
    \/ TestsChange
    \/ \E key \in SeqToSet(CheckerKeys) : DeleteGoalTag(key)

CheckerSpec == CheckerInit /\ [][CheckerNext]_vars

(***************************************************************************)
(* alert-system.js: the AlertSystem.  The caller's alert objects live in   *)
(* alerts; alertHistory, notificationQueue, returnedHistory and a batch    *)
(* hold references to them, as the JavaScript arrays do.                   *)
(***************************************************************************)
MaxSends == 2
MaxClock == 1

RandomSuffixes == {"0a1b", "9zzx"}
Undefined == <<>>

toISOString(now) == <<"iso", now>>

generateAlertId(now, random) == <<"alert", now, random>>

notifyImmediately(alert) ==
    [type |-> "critical-alert", alertId |-> alert.id, message |-> alert.taskId,
     actionRequired |-> TRUE]

queueNotification(ref) == Append(notificationQueue, ref)

CountSeverity(batch, severity) ==
    Cardinality({k \in 1..Len(batch) : alerts[batch[k]].severity = severity})

formatBatchAlert(batch) ==
    [critical |-> CountSeverity(batch, "critical"),
     warning |-> CountSeverity(batch, "warning"),
     info |-> CountSeverity(batch, "info")]

AlertInit ==
    /\ tasks = <<>>
    /\ teammateCount = 1
    /\ oversight = FALSE
    /\ goalTags = NoGoals
    /\ tests = ZeroTests
    /\ styleAnalysis = PlaceholderStyle
    /\ taskResultsArg = <<>>
    /\ goalsArg = <<>>
    /\ alerts = <<>>
    /\ InitManager

\* sendAlert stamps the caller's object and stores the reference; the clock is
\* read once for the timestamp (new Date()) and once more for the id
\* (Date.now()), and may have advanced in between.  It notifies at
\* once: notifyImmediately has no await, so its output is made before
\* sendAlert gives control back.
sendAlertQueueAll(heap, ref, now, idNow, random) ==
    LET stamped == [heap[ref] EXCEPT !.timestamp = toISOString(now),
                                     !.id = generateAlertId(idNow, random)]
    IN  /\ alerts' = [heap EXCEPT ![ref] = stamped]
        /\ alertHistory' = Append(alertHistory, ref)
        /\ criticalAlertsSent' = criticalAlertsSent
        /\ notificationQueue' = queueNotification(ref)
        /\ immediateLog' = immediateLog

sendAlert(heap, ref, now, idNow, random) ==
    LET stamped == [heap[ref] EXCEPT !.timestamp = toISOString(now),
                                     !.id = generateAlertId(idNow, random)]
    IN  /\ alerts' = [heap EXCEPT ![ref] = stamped]
        /\ alertHistory' = Append(alertHistory, ref)
        /\ IF stamped.severity = "critical"
           THEN /\ criticalAlertsSent' = TRUE
                /\ immediateLog' = Append(immediateLog, notifyImmediately(stamped))
                /\ notificationQueue' = notificationQueue
           ELSE /\ criticalAlertsSent' = criticalAlertsSent
                /\ notificationQueue' = queueNotification(ref)
                /\ immediateLog' = immediateLog

\* The caller builds an alert object and sends it.
SendAlert(taskId, severity) ==
    /\ Len(alertHistory) < MaxSends
    /\ \E now \in {clock, clock + 1} \cap 0..MaxClock, random \in RandomSuffixes :
        \E idNow \in {now, now + 1} \cap 0..MaxClock :
          /\ clock' = idNow
          /\ sendAlert(Append(alerts, [taskId |-> taskId, severity |-> severity,
                                       timestamp |-> Undefined, id |-> Undefined]),
                       Len(alerts) + 1, now, idNow, random)
    /\ UNCHANGED <<managerVars, graphVars, returnedHistory, lastBatch, reportVars, goalTags,
                   tests, styleAnalysis, checkResult>>

\* The caller sends an alert object it has sent before.
SendAlertAgain(ref) ==
    /\ Len(alertHistory) < MaxSends
    /\ \E now \in {clock, clock + 1} \cap 0..MaxClock, random \in RandomSuffixes :
        \E idNow \in {now, now + 1} \cap 0..MaxClock :
          /\ clock' = idNow
          /\ sendAlert(alerts, ref, now, idNow, random)
    /\ UNCHANGED <<managerVars, graphVars, returnedHistory, lastBatch, reportVars, goalTags,
                   tests, styleAnalysis, checkResult>>

\* Variant: the batch is sent and the queue is kept.
SendBatchNotificationsKeeping ==
    /\ IF Len(notificationQueue) = 0
       THEN /\ lastBatch' = [set |-> TRUE, sent |-> 0]
            /\ notificationQueue' = notificationQueue
       ELSE /\ lastBatch' = [set |-> TRUE, sent |-> Len(notificationQueue),
                             alerts |-> notificationQueue,
                             summary |-> formatBatchAlert(notificationQueue)]
            /\ notificationQueue' = notificationQueue
    /\ UNCHANGED <<managerVars, graphVars, alertHistory, alerts, criticalAlertsSent, immediateLog,
                   clock, returnedHistory, reportVars, goalTags, tests, styleAnalysis, checkResult>>

SendBatchNotifications ==
    /\ IF Len(notificationQueue) = 0
       THEN /\ lastBatch' = [set |-> TRUE, sent |-> 0]
            /\ notificationQueue' = notificationQueue
       ELSE /\ lastBatch' = [set |-> TRUE, sent |-> Len(notificationQueue),
                             alerts |-> notificationQueue,
                             summary |-> formatBatchAlert(notificationQueue)]
            /\ notificationQueue' = <<>>
    /\ UNCHANGED <<managerVars, graphVars, alertHistory, alerts, criticalAlertsSent, immediateLog,
                   clock, returnedHistory, reportVars, goalTags, tests, styleAnalysis, checkResult>>

\* taskId 0 stands for a call without an argument (null).
ClearNotifications(taskId) ==
    /\ notificationQueue' =
          IF taskId # 0
          THEN SelectSeq(notificationQueue, LAMBDA n : alerts[n].taskId # taskId)
          ELSE <<>>
    /\ UNCHANGED <<managerVars, graphVars, alertHistory, alerts, criticalAlertsSent, immediateLog,
                   clock, returnedHistory, lastBatch, reportVars, goalTags, tests, styleAnalysis,
                   checkResult>>

\* A filter that is absent is 0, "" or <<>> (taskId, severity, since).
NoFilters == [taskId |-> 0, severity |-> "", since |-> Undefined]
Filters ==
    {NoFilters, [NoFilters EXCEPT !.taskId = 1],
     [NoFilters EXCEPT !.severity = "critical"],
     [NoFilters EXCEPT !.since = toISOString(0)]}

getHistory(filters) ==
    LET copy == alertHistory
        byTask == IF filters.taskId # 0
                  THEN SelectSeq(copy, LAMBDA a : alerts[a].taskId = filters.taskId)
                  ELSE copy
        bySeverity == IF filters.severity # ""
                      THEN SelectSeq(byTask, LAMBDA a : alerts[a].severity = filters.severity)
                      ELSE byTask
    IN  IF filters.since # Undefined
        THEN SelectSeq(bySeverity, LAMBDA a : alerts[a].timestamp[2] > filters.since[2])
        ELSE bySeverity

GetHistory(filters) ==
    /\ returnedHistory' = getHistory(filters)
    /\ UNCHANGED <<managerVars, graphVars, alertHistory, alerts, notificationQueue,
                   criticalAlertsSent, immediateLog, clock, lastBatch, reportVars,
                   goalTags, tests, styleAnalysis, checkResult>>

\* The caller changes the array getHistory returned: it removes its last entry.
ModifyReturned ==
    /\ returnedHistory # <<>>
    /\ returnedHistory' = SubSeq(returnedHistory, 1, Len(returnedHistory) - 1)
    /\ UNCHANGED <<managerVars, graphVars, alertHistory, alerts, notificationQueue,
                   criticalAlertsSent, immediateLog, clock, lastBatch, reportVars,
                   goalTags, tests, styleAnalysis, checkResult>>

\* The alerts the callers build: one of each severity, for two tasks.
AlertInputs ==
    {[taskId |-> 1, severity |-> "critical"],
     [taskId |-> 1, severity |-> "warning"],
     [taskId |-> 2, severity |-> "info"]}

AlertNext ==
    \/ \E a \in AlertInputs : SendAlert(a.taskId, a.severity)
    \/ \E ref \in DOMAIN alerts : SendAlertAgain(ref)
    \/ SendBatchNotifications
    \/ \E taskId \in {0, 1} : ClearNotifications(taskId)
    \/ \E filters \in Filters : GetHistory(filters)
    \/ ModifyReturned

AlertSpec == AlertInit /\ [][AlertNext]_vars

(***************************************************************************)
(* alert-system.js: generateMilestoneReport.  Without goals (the default   *)
(* {}) goalAchievements is empty.                                          *)
(***************************************************************************)
MaxResults == 40
MaxMisaligned == 2

\* The goals of a report, in the order of Object.entries, and the tag the
\* results declare.
GoalsOptions ==
    {<<>>,
     <<[key |-> "performance", target |-> "high"],
       [key |-> "architecture", target |-> "microservices"]>>}

PerformanceTag == {[key |-> "performance", value |-> "high"]}

\* An alignment of the oversight agent carries the checker's result for the
\* performance goal in its details; one without a check ('not-checked',
\* 'error') has no details.
Alignment(status) ==
    [set |-> TRUE, status |-> status,
     details |-> IF status \in {"aligned", "misaligned"}
                 THEN {[key |-> "performance", passed |-> status = "aligned"]}
                 ELSE {}]

\* r.alignment?.status
StatusOf(r) == IF r.alignment.set THEN r.alignment.status ELSE "undefined"

\* The result lists handed to the report: the aligned results first, then the
\* misaligned ones (at most MaxMisaligned), then results that were not
\* checked (all without an alignment, or all with status 'not-checked'); the
\* result at position k has id k.  Either every result declares the
\* performance tag, or every result but the aligned ones.
ResultList(aligned, misaligned, rest, restAlignment, allTagged) ==
    [k \in 1..(aligned + misaligned + rest) |->
        [id |-> k,
         goalTags |-> IF allTagged \/ k > aligned THEN PerformanceTag ELSE {},
         alignment |-> IF k <= aligned THEN Alignment("aligned")
                       ELSE IF k <= aligned + misaligned THEN Alignment("misaligned")
                       ELSE restAlignment]]

ResultLists ==
    UNION {UNION {{ResultList(a, m, r, x, t) :
                      r \in 0..(MaxResults - a - m),
                      x \in {NoResult, Alignment("not-checked")},
                      t \in BOOLEAN} :
                  m \in 0..(IF MaxResults - a < MaxMisaligned
                            THEN MaxResults - a ELSE MaxMisaligned)} :
           a \in 0..MaxResults}

CountResults(results, status) ==
    Cardinality({k \in 1..Len(results) : StatusOf(results[k]) = status})

MisalignedIds(results) ==
    LET misalignedTasks == SelectSeq(results, LAMBDA r : StatusOf(r) = "misaligned")
    IN  [k \in 1..Len(misalignedTasks) |-> misalignedTasks[k].id]

Recommendations(results, misaligned, score) ==
    (IF misaligned > 0
     THEN <<[type |-> "fix-misaligned", priority |-> "high",
             message |-> <<Len(MisalignedIds(results)), MisalignedIds(results)>>]>>
     ELSE <<>>)
    \o (IF score < 80
        THEN <<[type |-> "improve-alignment", priority |-> "medium",
                message |-> <<score>>]>>
        ELSE <<>>)

ReportStatus(score) ==
    IF score >= 90 THEN "aligned" ELSE IF score >= 70 THEN "partial" ELSE "misaligned"

\* r.goalTags?.[goalKey]
Declares(r, goalKey) == \E t \in r.goalTags : t.key = goalKey /\ t.value # ""

\* r.alignment?.details?.[goalKey]?.passed
DetailPassed(r, goalKey) ==
    /\ r.alignment.set
    /\ \E d \in r.alignment.details : d.key = goalKey /\ d.passed

GoalAchievements(results, goals) ==
    [g \in 1..Len(goals) |->
        LET relevantTasks == SelectSeq(results, LAMBDA r : Declares(r, goals[g].key))
            goalAligned == Len(SelectSeq(relevantTasks,
                                         LAMBDA r : DetailPassed(r, goals[g].key)))
        IN  [key |-> goals[g].key,
             target |-> goals[g].target,
             aligned |-> goalAligned,
             total |-> Len(relevantTasks),
             percentage |-> IF Len(relevantTasks) > 0
                            THEN MathRoundPercent(goalAligned, Len(relevantTasks))
                            ELSE 100]]

ReportDetails(results) ==
    [k \in 1..Len(results) |->
        [id |-> results[k].id,
         status |-> IF results[k].alignment.set THEN results[k].alignment.status
                    ELSE "not-checked",
         issues |-> 0]]

\* Variant: the recommendations carry the time of the report.
generateMilestoneReportStamped(results, goals, now) ==
    LET aligned == CountResults(results, "aligned")
        misaligned == CountResults(results, "misaligned")
        notChecked == Cardinality({k \in 1..Len(results) : ~results[k].alignment.set})
        total == Len(results)
        score == IF total > 0 THEN MathRoundPercent(aligned, total) ELSE 0
    IN  [milestone |-> "Milestone",
         timestamp |-> toISOString(now),
         summary |-> [totalTasks |-> total, aligned |-> aligned,
                      misaligned |-> misaligned, notChecked |-> notChecked,
                      score |-> score],
         status |-> ReportStatus(score),
         goalAchievements |-> GoalAchievements(results, goals),
         recommendations |-> Recommendations(results, misaligned, score)
                             \o <<[type |-> "generated", priority |-> "low",
                                   message |-> toISOString(now)]>>,
         details |-> ReportDetails(results)]

generateMilestoneReport(results, goals, now) ==
    LET aligned == CountResults(results, "aligned")
        misaligned == CountResults(results, "misaligned")
        notChecked == Cardinality({k \in 1..Len(results) : ~results[k].alignment.set})
        total == Len(results)
        score == IF total > 0 THEN MathRoundPercent(aligned, total) ELSE 0
    IN  [milestone |-> "Milestone",
         timestamp |-> toISOString(now),
         summary |-> [totalTasks |-> total, aligned |-> aligned,
                      misaligned |-> misaligned, notChecked |-> notChecked,
                      score |-> score],
         status |-> ReportStatus(score),
         goalAchievements |-> GoalAchievements(results, goals),
         recommendations |-> Recommendations(results, misaligned, score),
         details |-> ReportDetails(results)]

ReportInit ==
    /\ tasks = <<>>
    /\ teammateCount = 1
    /\ oversight = FALSE
    /\ goalTags = NoGoals
    /\ tests = ZeroTests
    /\ styleAnalysis = PlaceholderStyle
    /\ alerts = <<>>
    /\ taskResultsArg \in ResultLists
    /\ goalsArg \in GoalsOptions
    /\ InitManager

\* reports keeps the report of this call and the one of the call before it.
GenerateMilestoneReport ==
    /\ \E now \in {clock, clock + 1} \cap 0..MaxClock :
          /\ clock' = now
          /\ reports' = (IF reports = <<>> THEN <<>> ELSE <<reports[Len(reports)]>>)
                        \o <<generateMilestoneReport(taskResultsArg, goalsArg, now)>>
    /\ UNCHANGED <<managerVars, graphVars, alertHistory, alerts, notificationQueue,
                   criticalAlertsSent, immediateLog, returnedHistory, lastBatch,
                   taskResultsArg, goalsArg, goalTags, tests, styleAnalysis, checkResult>>

ReportNext == GenerateMilestoneReport

ReportSpec == ReportInit /\ [][ReportNext]_vars

(***************************************************************************)
(* dispatcher.js: the TeamDispatcher under any sequence of dispatch,       *)
(* completeTask and failTask calls of a caller.  taskPc is the caller's    *)
(* view of each task: "pending", "dispatching" (dispatched and not          *)
(* finished), "completed" or "failed".                                      *)
(***************************************************************************)
DispatcherInit ==
    /\ \E n \in 1..MaxTasks : tasks = [i \in 1..n |-> [id |-> i, dependencies |-> <<>>]]
    /\ teammateCount \in 1..MaxWorkers
    /\ oversight = FALSE
    /\ goalTags = NoGoals
    /\ tests = ZeroTests
    /\ styleAnalysis = PlaceholderStyle
    /\ alerts = <<>>
    /\ taskResultsArg = <<>>
    /\ goalsArg = <<>>
    /\ InitManager

dispatcherFrame == <<tasks, teammateCount, oversight, completedTasks, blockedTasks,
                     runningTasks, taskResults, schedVars, validation, oversightCalls,
                     summary, decisionRequests, graphVars, alertVars, reportVars,
                     goalTags, tests, styleAnalysis, checkResult>>

\* dispatch up to its await: the teammate is chosen and marked.
Dispatch(id) ==
    /\ taskPc[id] = "pending"
    /\ activeTeammates' = dispatch(activeTeammates, id)
    /\ taskPc' = [taskPc EXCEPT ![id] = "dispatching"]
    /\ UNCHANGED <<dispatcherCompleted, dispatcherFrame>>

CompleteTask(id) ==
    /\ taskPc[id] = "dispatching"
    /\ activeTeammates' = completeTask(activeTeammates, id)
    /\ dispatcherCompleted' = [dispatcherCompleted EXCEPT ![id] =
                                  [set |-> TRUE, success |-> TRUE]]
    /\ taskPc' = [taskPc EXCEPT ![id] = "completed"]
    /\ UNCHANGED dispatcherFrame

FailTask(id) ==
    /\ taskPc[id] = "dispatching"
    /\ activeTeammates' = failTask(activeTeammates, id)
    /\ dispatcherCompleted' = [dispatcherCompleted EXCEPT ![id] =
                                  [set |-> TRUE, success |-> FALSE]]
    /\ taskPc' = [taskPc EXCEPT ![id] = "failed"]
    /\ UNCHANGED dispatcherFrame

DispatcherNext ==
    \/ \E id \in TaskIds(tasks) : Dispatch(id)
    \/ \E id \in TaskIds(tasks) : CompleteTask(id)
    \/ \E id \in TaskIds(tasks) : FailTask(id)

DispatcherSpec == DispatcherInit /\ [][DispatcherNext]_vars

(***************************************************************************)
(* Properties.                                                             *)
(***************************************************************************)
Independent == groupTasksForTeams(tasks).independent

\* C1 (readiness): every task that has been handed to the dispatcher had all
\* of its declared dependencies in completedTasks (entries are never removed
\* from completedTasks, so this is read off any later state).
C1_ReadyOnlyWhenDepsCompleted ==
    \A id \in Dispatched : Deps(tasks, id) \subseteq CompletedIds

\* C2 (transitive blocking): once a task has failed, every task that depends
\* on it directly or transitively and has not started is in blockedTasks.
C2_BlockingIsTransitive ==
    \A f \in FailedIds :
        \A t \in TransitiveDependents(tasks, f) :
            t \in Dispatched \/ t \in BlockedIds

\* C3 (liveness without failures, final result): when execute has returned for
\* an acyclic task list whose dependency ids all exist and no task failed,
\* every task is in completedTasks, for every worker count and input order.
C3_AllCompletedOnReturn ==
    (WellFormed(tasks) /\ pc = "returned" /\ FailedIds = {})
        => CompletedIds = TaskIds(tasks)

\* C4 (a failure is not fatal to the run): after a task has failed, execute
\* has returned or some step can still change the state; it is never stuck
\* for good.  Stated for well-formed lists in topological input order with a
\* teammate for every independent task, so that only the failure is in play.
C4_FailureDoesNotStall ==
    (/\ WellFormed(tasks)
     /\ InputTopological(tasks)
     /\ Len(Independent) <= teammateCount
     /\ FailedIds # {})
        => (pc = "returned" \/ ENABLED <<Next>>_vars)

\* C5 (bounded concurrency): the tasks handed to the dispatcher and not yet
\* finished never number more than teammateCount.
C5_BoundedConcurrency == Cardinality(InFlight) <= teammateCount

\* C5 witness: as many tasks in flight as there are teammates, with more
\* independent tasks than teammates.
C5_Witness ==
    /\ teammateCount >= 2
    /\ Len(Independent) > teammateCount
    /\ Cardinality(InFlight) = teammateCount

\* C6 (hard cap): in a run there are never more than CAP tasks in flight nor
\* more than CAP teammates, whatever teammateCount was passed.
C6_HardCap ==
    pc # "start" =>
        /\ Cardinality(InFlight) <= CAP
        /\ Cardinality(DOMAIN activeTeammates) <= CAP

\* C7 (validation gates execution): for a task list with a cycle or an
\* unknown dependency id, execute dispatches no task and never waits for a
\* dependency.
C7_InvalidListNotExecuted ==
    ~WellFormed(tasks) => (Dispatched = {} /\ pc # "waitStart")

\* C8 (validateDependencies): valid for every acyclic list whose dependency
\* ids all exist; not valid, with cycleDetected, for every list with a cycle.
C8_ValidateDependencies ==
    validation.set =>
        /\ WellFormed(tasks) => (validation.valid /\ ~validation.cycleDetected)
        /\ HasCycle(tasks) => (~validation.valid /\ validation.cycleDetected)

\* C8 witness: a list with a two-task cycle or a self-dependency was validated.
C8_Witness ==
    /\ validation.set
    /\ \E a, b \in TaskIds(tasks) : a \in Deps(tasks, b) /\ b \in Deps(tasks, a)
    /\ ~validation.valid

\* C9 (unknown dependency): validating an acyclic list that names an unknown
\* dependency id fails with a result other than the cycle result.
C9_UnknownDependencyDistinct ==
    (validation.set /\ HasUnknownDependency(tasks) /\ ~HasCycle(tasks))
        => (~validation.valid /\ ~validation.cycleDetected)

\* C10 (exactly-once blocking): no task id occurs twice in blockedTasks.
C10_BlockedOnce == NoDuplicates(blockedTasks)

\* C10 witness: a blocked task two of whose dependencies have failed.
C10_Witness ==
    \E t \in BlockedIds : Cardinality(Deps(tasks, t) \cap FailedIds) >= 2

\* C11 (terminal sets): no task id is in two of Completed (completedTasks),
\* Failed (taskResults with success = false) and Blocked (blockedTasks), and
\* a task that is in one of them is still in it after every step.
C11_Disjoint ==
    /\ CompletedIds \cap FailedIds = {}
    /\ CompletedIds \cap BlockedIds = {}
    /\ FailedIds \cap BlockedIds = {}

C11_NeverLeaves ==
    /\ CompletedIds \subseteq CompletedIds'
    /\ FailedIds \subseteq FailedIds'
    /\ BlockedIds \subseteq BlockedIds'

C11_TerminalSets == []C11_Disjoint /\ [][C11_NeverLeaves]_vars

\* C11 witness: a run with a completed, a failed and a blocked task.
C11_Witness ==
    /\ CompletedIds # {}
    /\ FailedIds # {}
    /\ BlockedIds # {}

\* C12 (blocking and dispatch exclude each other): a task is pushed to
\* blockedTasks only while it has not been handed to the dispatcher, and a
\* task in blockedTasks is not handed to the dispatcher by any later step.
C12_BlockedNeverDispatched ==
    [][\A t \in BlockedIds' : taskPc[t] = "pending" /\ taskPc'[t] = "pending"]_vars

\* C12 witness: dispatchDependentTasks has come to a blocked task and is
\* waiting in waitForDependencies instead of dispatching it.
C12_Witness ==
    /\ pc = "waitStart"
    /\ DependentTasks[depIdx].id \in BlockedIds
    /\ taskPc[DependentTasks[depIdx].id] = "pending"

\* C13 (no automatic retry): a task is handed to the dispatcher only from
\* its initial position, which it never returns to, so dispatch is called at
\* most once for each task id.
C13_DispatchedAtMostOnce ==
    [][\A id \in DOMAIN taskPc :
          /\ (taskPc'[id] = "dispatching" /\ taskPc[id] # "dispatching")
                 => taskPc[id] = "pending"
          /\ taskPc[id] # "pending" => taskPc'[id] # "pending"]_vars

\* C13 witness: a task failed and execute returned without dispatching it
\* again.
C13_Witness == pc = "returned" /\ FailedIds # {}

\* The entry of completedTasks for a completed task.
CompletedEntry(id) ==
    completedTasks[CHOOSE i \in 1..Len(completedTasks) : completedTasks[i].id = id]

\* C14 (decision on failure): for every failed task the decision collaborator
\* has been called with the failed task's id and the ids blocked by it.
C14_DecisionOnFailure ==
    \A f \in FailedIds :
        \E i \in 1..Len(decisionRequests) :
            /\ decisionRequests[i].taskId = f
            /\ decisionRequests[i].blockedIds = taskResults[f].blockedDependents

\* C15 (misalignment is not fatal): a successful task whose oversight check
\* has come back is recorded as completed whatever the verdict, and a
\* dependent task whose dependencies are all in completedTasks, aligned or
\* not, is dispatched when dispatchDependentTasks comes to it.
C15_MisalignmentNotFatal ==
    [][/\ \A id \in DOMAIN taskPc :
             (taskPc[id] = "checking" /\ taskPc'[id] # "checking")
                 => (id \in CompletedIds' /\ taskResults'[id].success)
       /\ (/\ pc = "dependent"
           /\ depIdx <= Len(DependentTasks)
           /\ Deps(tasks, DependentTasks[depIdx].id) \subseteq CompletedIds)
              => taskPc'[DependentTasks[depIdx].id] = "dispatching"]_vars

\* C15 witness: a dependent task was dispatched although one of its
\* dependencies completed with a critical misalignment.
C15_Witness ==
    \E t \in Dispatched :
        \E d \in Deps(tasks, t) \cap CompletedIds :
            /\ CompletedEntry(d).alignment.status = "misaligned"
            /\ CompletedEntry(d).alignment.critical

\* C16 (check before completion): every entry of completedTasks carries the
\* alignment runOversightCheck returned, the same as in taskResults, obtained
\* from the oversight agent when there is one and 'not-checked' otherwise;
\* and a task enters completedTasks only from the step that ends its check.
C16_AlignmentAttached ==
    \A i \in 1..Len(completedTasks) :
        LET t == completedTasks[i]
        IN  /\ t.alignment.status \in {"aligned", "misaligned", "error", "not-checked"}
            /\ taskResults[t.id].set /\ taskResults[t.id].alignment = t.alignment
            /\ oversight => oversightCalls[t.id] # "none"
            /\ ~oversight => t.alignment.status = "not-checked"

C16_CheckedBeforeCompleted ==
    /\ []C16_AlignmentAttached
    /\ [][\A id \in CompletedIds' \ CompletedIds : taskPc[id] = "checking"]_vars

\* C16 witness: two tasks completed, with different answers of the oversight
\* agent.
C16_Witness ==
    \E a, b \in CompletedIds :
        /\ oversightCalls[a] = "aligned"
        /\ oversightCalls[b] = "misaligned"

\* C17 (critical alert before completion): for every task in completedTasks
\* whose alignment is critical, the alert history holds a critical alert for
\* that task.
C17_CriticalAlertBeforeCompleted ==
    \A id \in CompletedIds :
        CompletedEntry(id).alignment.critical
            => \E k \in 1..Len(alertHistory) :
                  /\ alerts[alertHistory[k]].taskId = id
                  /\ alerts[alertHistory[k]].severity = "critical"

\* C18 (alignment check failure): a task whose checkAlignment call threw is
\* in completedTasks with alignment status 'error' and execute has not
\* thrown; without an oversight agent every completed task has status
\* 'not-checked' and no check was called.
C18_CheckErrorIsolated ==
    /\ \A id \in DOMAIN oversightCalls :
          oversightCalls[id] = "throws"
              => /\ id \in CompletedIds
                 /\ CompletedEntry(id).alignment.status = "error"
                 /\ taskResults[id].success
                 /\ pc # "threw"
    /\ ~oversight =>
          \A id \in CompletedIds :
              /\ CompletedEntry(id).alignment.status = "not-checked"
              /\ oversightCalls[id] = "none"

\* C18 witness: the check of a task threw and a task that depends on it was
\* dispatched afterwards.
C18_Witness ==
    \E t \in Dispatched :
        \E d \in Deps(tasks, t) : oversightCalls[d] = "throws"

\* The completed tasks read off taskResults, by alignment status.
ResultsWithStatus(S) ==
    {id \in DOMAIN taskResults :
        /\ taskResults[id].set
        /\ taskResults[id].success
        /\ taskResults[id].alignment.status \in S}

\* r is n / d rounded to the nearest integer, halves up.
IsRounded(r, n, d) == 2 * r * d <= 2 * n + d /\ 2 * n + d < 2 * r * d + 2 * d

\* C19 (rate over the checked tasks): the alignmentRate of the summary is
\* 100 * aligned / checked rounded, where checked counts the completed tasks
\* whose status is neither 'not-checked' nor 'error'.
C19_RateOverChecked ==
    LET aligned == Cardinality(ResultsWithStatus({"aligned"}))
        checked == Cardinality(ResultsWithStatus({"aligned", "misaligned"}))
    IN  (summary.set /\ checked > 0)
            => IsRounded(summary.alignmentRate, 100 * aligned, checked)

\* The results of the invoked checkers that hold an issue of the severity.
DetailsWith(severity) ==
    {i \in 1..Len(checkResult.details) :
        \E k \in 1..Len(checkResult.details[i].result.issues) :
            checkResult.details[i].result.issues[k].severity = severity}

DetailOf(key) ==
    checkResult.details[CHOOSE i \in 1..Len(checkResult.details) :
                            checkResult.details[i].key = key].result
InvokedKeys == {checkResult.details[i].key : i \in 1..Len(checkResult.details)}

\* C21 (aggregate critical flag): the critical flag checkAll returns is the
\* disjunction of the critical flags of the results of the invoked checkers.
C21_CriticalIsOr ==
    checkResult.set =>
        (checkResult.critical <=> \E key \in InvokedKeys : DetailOf(key).critical)

\* C21 witness: the testing result is critical, the security result that
\* follows it is not, and the aggregate is critical.
C21_Witness ==
    /\ checkResult.set
    /\ {"testing", "security"} \subseteq InvokedKeys
    /\ DetailOf("testing").critical
    /\ ~DetailOf("security").critical
    /\ DetailOf("security").issues # <<>>
    /\ checkResult.critical

Severities(result) == [i \in 1..Len(result.issues) |-> result.issues[i].severity]

\* C23 (response time thresholds): for the goal "< 1ms" the performance
\* result holds one critical issue when the measured time is over twice the
\* target, one warning when it is over the target and at most twice it, and
\* has passed with no issue when it is at or under the target.
C23_ResponseTimeThresholds ==
    (checkResult.set /\ goalTags.performance = StrUnder1ms) =>
        LET target == parseInt(Tail(goalTags.performance)).val
            actual == tests.performance.avgResponseTime
            result == DetailOf("performance")
        IN  /\ actual > 2 * target => Severities(result) = <<"critical">>
            /\ (actual > target /\ actual <= 2 * target)
                  => Severities(result) = <<"warning">>
            /\ actual <= target => (result.passed /\ result.issues = <<>>)

\* The alert sendAlert has just stored: the last entry of the history.
LastSent == alerts'[alertHistory'[Len(alertHistory')]]

IsSendAlertStep == Len(alertHistory') = Len(alertHistory) + 1

\* C24 (routing by severity): a sendAlert call for a critical alert puts out
\* its immediate notification within the call and leaves the batch queue
\* alone; a call for a warning or info alert appends the alert to the batch
\* queue and puts out nothing; no critical alert is ever in the queue.
C24_RoutedBySeverity ==
    /\ [](\A k \in 1..Len(notificationQueue) :
             alerts[notificationQueue[k]].severity # "critical")
    /\ [][IsSendAlertStep =>
             IF LastSent.severity = "critical"
             THEN /\ immediateLog' = Append(immediateLog, notifyImmediately(LastSent))
                  /\ notificationQueue' = notificationQueue
             ELSE /\ notificationQueue' =
                        Append(notificationQueue, alertHistory'[Len(alertHistory')])
                  /\ immediateLog' = immediateLog]_vars

\* C24 witness: a critical alert and a warning were sent; one went out at
\* once and the other waits in the queue.
C24_Witness ==
    /\ Len(alertHistory) = 2
    /\ Len(immediateLog) = 1
    /\ Len(notificationQueue) = 1
    /\ alerts[notificationQueue[1]].severity = "warning"
    /\ immediateLog[1].alertId = alerts[alertHistory[1]].id

\* The entry at position k of the history, as a reader of the history sees it.
HistoryEntry(k) == alerts[alertHistory[k]]

\* C25 (append-only history): no step removes an entry of the alert history
\* or changes one: every entry a step finds in the history is at the same
\* position, with the same content, after the step.
C25_HistoryAppendOnly ==
    [][\A k \in 1..Len(alertHistory) :
          /\ k <= Len(alertHistory')
          /\ alerts'[alertHistory'[k]] = HistoryEntry(k)]_vars

\* C26 (unique ids): any two entries of the alert history have different ids.
C26_UniqueIds ==
    \A i, j \in 1..Len(alertHistory) :
        i # j => HistoryEntry(i).id # HistoryEntry(j).id

\* The integer nearest to n / d, a half counting upwards (n >= 0, d > 0).
MathRound(n, d) == (2 * n + d) \div (2 * d)

\* The number of aligned results among the results handed to the report.
AlignedResults ==
    Cardinality({k \in 1..Len(taskResultsArg) :
                    /\ taskResultsArg[k].alignment.set
                    /\ taskResultsArg[k].alignment.status = "aligned"})

\* C27 (score and status): the score of every report is 100 * aligned / total
\* rounded to the nearest integer (0 for an empty result set), and its status
\* is 'aligned' from 90, 'partial' from 70 to 89 and 'misaligned' below 70.
C27_ScoreAndStatus ==
    \A k \in 1..Len(reports) :
        LET score == reports[k].summary.score
            total == Len(taskResultsArg)
        IN  /\ score = IF total = 0 THEN 0 ELSE MathRound(100 * AlignedResults, total)
            /\ score >= 90 => reports[k].status = "aligned"
            /\ (score >= 70 /\ score < 90) => reports[k].status = "partial"
            /\ score < 70 => reports[k].status = "misaligned"

\* C28 (repeatable query): two calls of generateMilestoneReport on the same
\* result set return the same score, status and recommendations, whatever the
\* time of each call, and no call changes the results passed in, the state of
\* the alert system or the state of the scheduler.
C28_RepeatableQuery ==
    /\ [](Len(reports) = 2 =>
             /\ reports[1].summary.score = reports[2].summary.score
             /\ reports[1].status = reports[2].status
             /\ reports[1].recommendations = reports[2].recommendations)
    /\ [][(reports' # reports) =>
             /\ taskResultsArg' = taskResultsArg
             /\ UNCHANGED <<alertHistory, alerts, notificationQueue, criticalAlertsSent>>
             /\ UNCHANGED <<activeTeammates, completedTasks, blockedTasks,
                            runningTasks, taskResults>>]_vars

\* C28 witness: two reports made at different times on a result set with
\* misaligned results and a score under 80.
C28_Witness ==
    /\ Len(reports) = 2
    /\ reports[1].timestamp # reports[2].timestamp
    /\ Len(reports[2].recommendations) = 2
    /\ reports[2].summary.misaligned = 2

\* The ids of a task sequence, in order.
IdsOf(ts) == [k \in 1..Len(ts) |-> ts[k].id]

\* Ascending ids: the tasks are in input order and none occurs twice (the
\* task at position i of the input has id i).
InInputOrder(ts) == \A i, j \in 1..Len(ts) : i < j => ts[i].id < ts[j].id

\* C29 (partition): groupTasksForTeams puts exactly the tasks without
\* dependencies in independent and exactly the others in dependent, each once
\* and in input order, and maxParallel is the number of independent tasks,
\* or 5 when there are more than 5.
C29_GroupingPartitions ==
    grouping.set =>
        LET g == grouping.result
            n == Len(g.independent)
        IN  /\ SeqToSet(IdsOf(g.independent)) = {id \in TaskIds(tasks) : Deps(tasks, id) = {}}
            /\ SeqToSet(IdsOf(g.dependent)) = {id \in TaskIds(tasks) : Deps(tasks, id) # {}}
            /\ \A k \in 1..n : g.independent[k] = tasks[g.independent[k].id]
            /\ \A k \in 1..Len(g.dependent) : g.dependent[k] = tasks[g.dependent[k].id]
            /\ InInputOrder(g.independent) /\ InInputOrder(g.dependent)
            /\ n + Len(g.dependent) = Len(tasks)
            /\ g.maxParallel = IF n <= 5 THEN n ELSE 5

\* C29 witness: a grouping of MaxIndependent independent tasks and a dependent one.
C29_Witness ==
    /\ grouping.set
    /\ Len(grouping.result.independent) = MaxIndependent
    /\ Len(grouping.result.dependent) = 1
    /\ grouping.result.maxParallel = 5

\* C30 (suggested count): suggestTeammateCount suggests 1 teammate for no or
\* one independent task, as many teammates as independent tasks for 2 or 3,
\* and for 4 or more the number of independent tasks, at most 5.
C30_SuggestedCount ==
    suggestion.set =>
        LET n == Cardinality({id \in TaskIds(tasks) : Deps(tasks, id) = {}})
        IN  suggestion.result.count =
               IF n <= 1 THEN 1 ELSE IF n <= 5 THEN n ELSE 5

\* C30 witness: a suggestion for a list of 4 independent tasks.
C30_Witness ==
    /\ suggestion.set
    /\ Cardinality({id \in TaskIds(tasks) : Deps(tasks, id) = {}}) = 4
    /\ suggestion.result.count = 4

\* C31 (label): whenever suggestTeammateCount suggests more than one teammate
\* its reason carries the label 'Adaptive' (the reason of the model is the
\* text of the reason up to its first colon).
C31_AdaptiveLabel ==
    (suggestion.set /\ suggestion.result.count > 1)
        => suggestion.result.reason = "Adaptive"

\* The position of id in an order without repetitions.
PositionIn(order, id) == CHOOSE k \in 1..Len(order) : order[k] = id

\* C32 (topological order): for an acyclic task list whose dependency ids all
\* exist, the order of calculateExecutionOrder holds each task id exactly once
\* and each task after all of its dependencies.
C32_TopologicalOrder ==
    (executionOrder.set /\ WellFormed(tasks)) =>
        LET order == executionOrder.order
        IN  /\ SeqToSet(order) = TaskIds(tasks)
            /\ NoDuplicates(order)
            /\ \A id \in TaskIds(tasks) : \A d \in Deps(tasks, id) :
                  PositionIn(order, d) < PositionIn(order, id)

\* C32 witness: the order of a list in which a task with two dependencies
\* comes before them in the input.
C32_Witness ==
    /\ executionOrder.set
    /\ WellFormed(tasks)
    /\ \E id \in TaskIds(tasks) :
          /\ Cardinality(Deps(tasks, id)) = 2
          /\ \A d \in Deps(tasks, id) : d > id
    /\ Len(executionOrder.order) = Len(tasks)

\* The tasks that are ready when the first k - 1 ids of the order are placed.
ReadyAt(order, k) ==
    LET placed == {order[j] : j \in 1..(k - 1)}
    IN  {id \in TaskIds(tasks) \ placed : Deps(tasks, id) \subseteq placed}

\* C33 (ties by input order): at every position of the order of an acyclic
\* list with existing dependency ids, the task placed is the one of the tasks
\* ready at that step that comes first in the input list.
C33_TiesByInputOrder ==
    (executionOrder.set /\ WellFormed(tasks)) =>
        \A k \in 1..Len(executionOrder.order) :
            \A id \in ReadyAt(executionOrder.order, k) : executionOrder.order[k] <= id

\* The number of entries of completedTasks for task id.
CompletedCount(id) == Cardinality({i \in 1..Len(completedTasks) : completedTasks[i].id = id})

\* C34 (no lost update): once no dispatched task is in flight any more, each
\* task that succeeded occurs exactly once in completedTasks and no other
\* task occurs in it, every dispatched task has its taskResults entry, and
\* runningTasks is empty.
C34_NoLostUpdate ==
    InFlight = {} =>
        /\ \A id \in TaskIds(tasks) :
              CompletedCount(id) = IF taskPc[id] = "completed" THEN 1 ELSE 0
        /\ \A id \in Dispatched :
              /\ taskResults[id].set
              /\ taskResults[id].success <=> taskPc[id] = "completed"
        /\ runningTasks = <<>>

\* C34 witness: two independent tasks were in flight together, the later one
\* of the input completed first, and a third dispatched task has failed.
C34_Witness ==
    /\ InFlight = {}
    /\ Len(completedTasks) >= 2
    /\ completedTasks[1].id > completedTasks[2].id
    /\ Deps(tasks, completedTasks[1].id) = {}
    /\ Deps(tasks, completedTasks[2].id) = {}
    /\ \E f \in FailedIds : Deps(tasks, f) = {}

\* The tasks that were dispatched and are not finished.
Outstanding == {id \in TaskIds(tasks) : taskPc[id] = "dispatching"}

\* C35 (free slot): a dispatch never overwrites the currentTask of a teammate
\* whose task is unfinished, and while fewer tasks are outstanding than there
\* are teammates the outstanding tasks are held by distinct teammates.
C35_DispatchToFreeTeammate ==
    /\ [][(\E id \in TaskIds(tasks) : taskPc[id] = "pending" /\ taskPc'[id] = "dispatching")
             => \A t \in DOMAIN activeTeammates :
                   activeTeammates[t].currentTask \in Outstanding
                      => activeTeammates'[t].currentTask = activeTeammates[t].currentTask]_vars
    /\ [](Cardinality(Outstanding) <= teammateCount =>
             \A id \in Outstanding :
                 \E t \in DOMAIN activeTeammates : activeTeammates[t].currentTask = id)

\* C39 (workers are released): a teammate holds a task only while that task
\* is in flight, so once execute has returned every teammate is idle again
\* without a currentTask.
C39_WorkersReleased ==
    \A t \in DOMAIN activeTeammates :
        /\ activeTeammates[t].currentTask # NoTask
              => activeTeammates[t].currentTask \in InFlight
        /\ pc = "returned" => activeTeammates[t] = [currentTask |-> NoTask, status |-> "idle"]

\* The ids of the tasks with dependencies, and of those without.
DependentIds == {id \in TaskIds(tasks) : Deps(tasks, id) # {}}
IndependentIds == {id \in TaskIds(tasks) : Deps(tasks, id) = {}}

\* C36 (phases): once a dependent task has been dispatched no independent
\* task is in flight, at most one dependent task is in flight, no dependent
\* task before a dispatched one in the input is in flight, and none before it
\* is still waiting to be dispatched, unless it is blocked.
C36_PhasesOrdered ==
    /\ DependentIds \cap Dispatched # {} => IndependentIds \cap InFlight = {}
    /\ Cardinality(DependentIds \cap InFlight) <= 1
    /\ \A i, j \in DependentIds :
          (i < j /\ j \in Dispatched) => i \notin InFlight
    /\ \A i, j \in DependentIds :
          (i < j /\ taskPc[j] # "pending")
             => (taskPc[i] # "pending" \/ i \in BlockedIds)

\* C36 witness: the independent phase is over, the first dependent task has
\* completed and the second one is in flight.
C36_Witness ==
    \E i, j \in DependentIds :
        /\ i < j
        /\ taskPc[i] = "completed"
        /\ j \in InFlight
        /\ Cardinality(IndependentIds \cap Dispatched) >= 1

\* s is the beginning of t.
IsPrefix(s, t) == Len(s) <= Len(t) /\ SubSeq(t, 1, Len(s)) = s

\* What clearNotifications may leave of the queue: nothing, or the alerts of
\* the other tasks.
ClearedQueues ==
    {<<>>} \cup {SelectSeq(notificationQueue, LAMBDA n : alerts[n].taskId # taskId) :
                    taskId \in {alerts[r].taskId : r \in DOMAIN alerts}}

\* C37 (exactly-once batches): a step that delivers a batch delivers the
\* whole queue of that moment, in order, and leaves the queue empty; any
\* other step leaves the queued alerts in place, adding to their end at most,
\* unless it is a clearNotifications.
C37_BatchExactlyOnce ==
    [][/\ lastBatch' # lastBatch =>
            /\ notificationQueue' = <<>>
            /\ lastBatch'.sent = Len(notificationQueue)
            /\ Len(notificationQueue) > 0 => lastBatch'.alerts = notificationQueue
       /\ lastBatch' = lastBatch =>
            \/ IsPrefix(notificationQueue, notificationQueue')
            \/ /\ alertHistory' = alertHistory
               /\ notificationQueue' \in ClearedQueues]_vars

\* C37 witness: two queued alerts were delivered in one batch and the queue
\* is empty.
C37_Witness ==
    /\ lastBatch.set
    /\ lastBatch.sent = 2
    /\ notificationQueue = <<>>
    /\ Len(alertHistory) = 2

\* The results that declare the tag of a goal, counted from the argument.
DeclaringResults(goalKey) ==
    {k \in 1..Len(taskResultsArg) :
        \E t \in taskResultsArg[k].goalTags : t.key = goalKey /\ t.value # ""}

PassedResults(goalKey) ==
    {k \in DeclaringResults(goalKey) :
        /\ taskResultsArg[k].alignment.set
        /\ \E d \in taskResultsArg[k].alignment.details : d.key = goalKey /\ d.passed}

\* C38 (goal achievements): in every report, the achievement of each goal
\* counts the results that declare the goal's tag as total and those of them
\* whose alignment details for the goal passed as aligned, and its percentage
\* is 100 * aligned / total rounded to the nearest integer, 100 when no
\* result declares the tag.
C38_GoalAchievements ==
    \A k \in 1..Len(reports) :
        /\ Len(reports[k].goalAchievements) = Len(goalsArg)
        /\ \A g \in 1..Len(goalsArg) :
              LET achievement == reports[k].goalAchievements[g]
                  total == Cardinality(DeclaringResults(goalsArg[g].key))
                  passed == Cardinality(PassedResults(goalsArg[g].key))
              IN  /\ achievement.total = total
                  /\ achievement.aligned = passed
                  /\ achievement.percentage =
                        IF total = 0 THEN 100 ELSE MathRound(100 * passed, total)

\* C40 (exhaustive counts): in every report the aligned, misaligned and
\* not-checked counts of the summary add up to the number of results.
C40_CountsExhaustive ==
    \A k \in 1..Len(reports) :
        reports[k].summary.aligned + reports[k].summary.misaligned
            + reports[k].summary.notChecked = reports[k].summary.totalTasks

====
